---- MODULE Spec2Model ----
(***************************************************************************)
(* A model of the abortable_parser combinator library.                     *)
(*                                                                         *)
(* The library is a set of pure functions from a cursor (and sub-rules) to *)
(* a four-state Result.  The model keeps an input `source`, a cursor       *)
(* `iter` over it and the record `last` of the last combinator that was    *)
(* applied: its name, its sub-rules, its entry cursor, the Result it       *)
(* returned and the sub-rule invocations it made.  `tasks` holds the        *)
(* parse attempts that run step by step, each on a cursor of its own.      *)
(***************************************************************************)
EXTENDS Integers, Sequences, FiniteSets, TLC

VARIABLES source, iter, last, tasks

vars == <<source, iter, last, tasks>>

(***************************************************************************)
(* Bounds of the model.                                                    *)
(***************************************************************************)
MaxLen == 3

Alphabet == {"a", ";", ","}

RECURSIVE SeqsUpTo(_, _)
SeqsUpTo(S, n) ==
    IF n = 0 THEN {<<>>}
    ELSE LET shorter == SeqsUpTo(S, n - 1)
         IN  shorter \cup {Append(s, x) : s \in shorter, x \in S}

Sources == SeqsUpTo(Alphabet, MaxLen)

\* The inputs of the separated-list runs: lists of "a" items separated by
\* ";", long enough for three items or two items and a trailing separator.
MaxSepLen == 5

SepAlphabet == {"a", ";"}

SepSources == SeqsUpTo(SepAlphabet, MaxSepLen)

(***************************************************************************)
(* iter.rs: StrIter, a cursor over the source: offset, line and column.    *)
(* SliceIter is the same cursor without the line and column.               *)
(***************************************************************************)
StrIter_new == [offset |-> 0, line |-> 1, column |-> 1]

get_offset(i) == i.offset

\* A next() that does not tell a line end from another byte.
next_mut(i) ==
    IF i.offset < Len(source)
    THEN LET item == source[i.offset + 1]
         IN  [item |-> <<item>>,
              iter |-> [offset |-> i.offset + 1,
                        line   |-> i.line,
                        column |-> i.column + 1]]
    ELSE [item |-> <<>>, iter |-> i]

\* Iterator::next(&mut self): the item returned (<<>> for None, <<b>> for
\* Some(b)) and the cursor after the call.
next(i) ==
    IF i.offset < Len(source)
    THEN LET item == source[i.offset + 1]
         IN  [item |-> <<item>>,
              iter |-> [offset |-> i.offset + 1,
                        line   |-> IF item = "\n" THEN i.line + 1 ELSE i.line,
                        column |-> IF item = "\n" THEN 1 ELSE i.column + 1]]
    ELSE [item |-> <<>>, iter |-> i]

\* A byte of the source is the one-character string of the character with
\* the byte's value (`*b as char`).  The bytes 0x80 to 0xBF, which continue
\* a UTF-8 character and do not start one.
ContinuationBytes ==
    {"", "", "", "", "", "", "", "",
     "", "", "", "", "", "", "", "",
     "", "", "", "", "", "", "", "",
     "", "", "", "", "", "", "", "",
     " ", "¡", "¢", "£", "¤", "¥", "¦", "§",
     "¨", "©", "ª", "«", "¬", "­", "®", "¯",
     "°", "±", "²", "³", "´", "µ", "¶", "·",
     "¸", "¹", "º", "»", "¼", "½", "¾", "¿"}

\* str::is_char_boundary, which the index of a str checks on both ends of
\* the range.
is_char_boundary(index) ==
    \/ index = 0
    \/ index = Len(source)
    \/ index < Len(source) /\ source[index + 1] \notin ContinuationBytes

\* The ranges self.source.index(r) has a value for: it panics on the others.
span_ok(from, to) ==
    /\ from <= to
    /\ is_char_boundary(from)
    /\ is_char_boundary(to)

\* The panic of an index out of the source or inside a character.
Panic == [kind |-> "Panic"]

\* Span::span(SpanRange::Range(from..to)): the sub-range of the source.
span(i, from, to) ==
    IF span_ok(from, to) THEN SubSeq(source, from + 1, to) ELSE Panic

\* StrIter::peek_next: the item at the offset, the cursor as it is.
peek_next(i) ==
    IF i.offset < Len(source) THEN <<source[i.offset + 1]>> ELSE <<>>

\* StrIter::clone
clone(i) == [offset |-> i.offset, line |-> i.line, column |-> i.column]

\* A seek that works out the line and column of the offset it moves to.
seek_mut(i, to) ==
    LET self_len == Len(source)
        offset == IF self_len > to THEN to ELSE self_len
        nls == {k \in 1..offset : source[k] = "\n"}
        lastNL == IF nls = {} THEN 0 ELSE CHOOSE k \in nls : \A j \in nls : j <= k
    IN  [ret |-> offset,
         iter |-> [offset |-> offset, line |-> 1 + Cardinality(nls),
                   column |-> offset - lastNL + 1]]

\* A seek that does not stop at the end of the source.
seek_unclamped_mut(i, to) ==
    [ret |-> to, iter |-> [i EXCEPT !.offset = to]]

\* StrIter::seek: the offset it returns and the cursor after it.
seek(i, to) ==
    LET self_len == Len(source)
        offset == IF self_len > to THEN to ELSE self_len
    IN  [ret |-> offset, iter |-> [i EXCEPT !.offset = offset]]

\* The cursor after n calls of next().
RECURSIVE Advance(_, _)
Advance(i, n) == IF n = 0 THEN i ELSE Advance(next(i).iter, n - 1)

\* The cursor next() reaches n elements after the new cursor: one line per
\* "\n" passed, and the column counted from the last of them.
CursorAt(n) ==
    LET nls == {k \in 1..n : source[k] = "\n"}
        lastNL == IF nls = {} THEN 0 ELSE CHOOSE k \in nls : \A j \in nls : j <= k
    IN  [offset |-> n, line |-> 1 + Cardinality(nls), column |-> n - lastNL + 1]

\* Every cursor a rule can be handed over the current source: the new cursor
\* and the ones next() reaches from it.
Cursors ==
    {c \in [offset : 0..Len(source), line : 1..(Len(source) + 1),
            column : 1..(Len(source) + 1)] :
        c = CursorAt(c.offset)}

(***************************************************************************)
(* lib.rs: Error and Result.                                               *)
(***************************************************************************)
\* Error::new: a message, no cause, a context.
Error_new(msg, ctx) == [msg |-> msg, cause |-> <<>>, context |-> ctx]

\* Error::caused_by: a message, a cause, a context.
Error_caused_by(msg, cause, ctx) ==
    [msg |-> msg, cause |-> <<cause>>, context |-> ctx]

Complete(i, o) == [kind |-> "Complete", iter |-> i, out |-> o]
Incomplete(ctx) == [kind |-> "Incomplete", ctx |-> ctx]
Fail(e) == [kind |-> "Fail", err |-> e]
Abort(e) == [kind |-> "Abort", err |-> e]

is_complete(r) == r.kind = "Complete"
is_incomplete(r) == r.kind = "Incomplete"
is_fail(r) == r.kind = "Fail"
is_abort(r) == r.kind = "Abort"

\* The unit value (), Option::Some and Option::None.
Unit == "()"
Some(o) == <<"Some", o>>
None == <<"None">>

\* A loop that never returns: the outcome of a combinator whose loop comes
\* back to a cursor it has already tried (rules are pure, so it then repeats
\* the same iterations forever).
Diverge == [kind |-> "Diverge"]

(***************************************************************************)
(* combinators.rs: the conversions on a Result.                            *)
(***************************************************************************)
\* combinators::not.  The Complete arm binds its own `i`, the cursor of the
\* result, which shadows the parameter.
not(i, result) ==
    CASE result.kind = "Complete" ->
            Fail(Error_new("Matched on input when we shouldn't have.", result.iter))
      [] result.kind = "Abort" -> Abort(result.err)
      [] result.kind = "Incomplete" -> Incomplete(result.ctx)
      [] result.kind = "Fail" -> Complete(i, Unit)

\* A must that forgets to escalate: Fail stays Fail.
must_mut(result) ==
    CASE result.kind = "Complete" -> Complete(result.iter, result.out)
      [] result.kind = "Incomplete" -> Incomplete(result.ctx)
      [] result.kind = "Fail" -> Fail(result.err)
      [] result.kind = "Abort" -> Abort(result.err)

\* combinators::must
must(result) ==
    CASE result.kind = "Complete" -> Complete(result.iter, result.out)
      [] result.kind = "Incomplete" -> Incomplete(result.ctx)
      [] result.kind = "Fail" -> Abort(result.err)
      [] result.kind = "Abort" -> Abort(result.err)

\* A trap that lets Abort through.
trap_mut(result) ==
    CASE result.kind = "Complete" -> Complete(result.iter, result.out)
      [] result.kind = "Incomplete" -> Incomplete(result.ctx)
      [] result.kind = "Fail" -> Fail(result.err)
      [] result.kind = "Abort" -> Abort(result.err)

\* combinators::trap
trap(result) ==
    CASE result.kind = "Complete" -> Complete(result.iter, result.out)
      [] result.kind = "Incomplete" -> Incomplete(result.ctx)
      [] result.kind = "Fail" -> Fail(result.err)
      [] result.kind = "Abort" -> Fail(result.err)

\* combinators::must_complete
\* A must_complete that replaces the error of a Fail by a new one.
must_complete_mut(result, msg) ==
    CASE result.kind = "Complete" -> Complete(result.iter, result.out)
      [] result.kind = "Incomplete" -> Abort(Error_new(msg, result.ctx))
      [] result.kind = "Fail" -> Abort(Error_new(msg, result.err.context))
      [] result.kind = "Abort" -> Abort(result.err)

\* combinators::must_complete
must_complete(result, msg) ==
    CASE result.kind = "Complete" -> Complete(result.iter, result.out)
      [] result.kind = "Incomplete" -> Abort(Error_new(msg, result.ctx))
      [] result.kind = "Fail" -> Abort(result.err)
      [] result.kind = "Abort" -> Abort(result.err)

\* A complete that settles an Abort to a Fail as well.
complete_mut(result, msg) ==
    CASE result.kind = "Incomplete" -> Fail(Error_new(msg, result.ctx))
      [] result.kind = "Complete" -> Complete(result.iter, result.out)
      [] result.kind = "Fail" -> Fail(result.err)
      [] result.kind = "Abort" -> Fail(result.err)

\* combinators::complete
complete(result, msg) ==
    CASE result.kind = "Incomplete" -> Fail(Error_new(msg, result.ctx))
      [] result.kind = "Complete" -> Complete(result.iter, result.out)
      [] result.kind = "Fail" -> Fail(result.err)
      [] result.kind = "Abort" -> Abort(result.err)

\* An optional that passes Fail through.
optional_mut(it, result) ==
    CASE result.kind = "Complete" -> Complete(result.iter, Some(result.out))
      [] result.kind = "Incomplete" -> Incomplete(result.ctx)
      [] result.kind = "Fail" -> Fail(result.err)
      [] result.kind = "Abort" -> Abort(result.err)

\* combinators::optional
optional(it, result) ==
    CASE result.kind = "Complete" -> Complete(result.iter, Some(result.out))
      [] result.kind = "Incomplete" -> Incomplete(result.ctx)
      [] result.kind = "Fail" -> Complete(it, None)
      [] result.kind = "Abort" -> Abort(result.err)

(***************************************************************************)
(* combinators.rs and test.rs: the leaf rules.                             *)
(***************************************************************************)
RECURSIVE Join(_)
Join(s) == IF s = <<>> THEN "" ELSE Head(s) \o Join(Tail(s))

\* The `for expected in $e.bytes()` loop of text_token!: the cursor and the
\* count of matching items after the expected bytes from position k on.
RECURSIVE text_token_loop(_, _, _, _)
text_token_loop(i, e, k, count) ==
    IF k > Len(e) THEN [iter |-> i, count |-> count]
    ELSE LET n == next(i)
         IN  IF n.item = <<>> THEN [iter |-> n.iter, count |-> count]
             ELSE text_token_loop(n.iter, e, k + 1,
                                  IF n.item[1] = e[k] THEN count + 1 ELSE count)

\* A text_token! whose Fail is positioned at the cursor the loop stopped at.
text_token_mut(i, e) ==
    LET l == text_token_loop(i, e, 1, 0)
    IN  IF l.count = Len(e)
        THEN Complete(l.iter, e)
        ELSE Fail(Error_new("Expected " \o Join(e) \o " but didn't get it.", l.iter))

\* text_token!($i, $e)
text_token(i, e) ==
    LET l == text_token_loop(i, e, 1, 0)
    IN  IF l.count = Len(e)
        THEN Complete(l.iter, e)
        ELSE Fail(Error_new("Expected " \o Join(e) \o " but didn't get it.", i))

\* combinators::eoi
eoi(i) ==
    LET n == next(i)
    IN  IF n.item # <<>>
        THEN Fail(Error_new("Expected End Of Input", i))
        ELSE Complete(i, Unit)

is_ascii_alphabetic(b) ==
    b \in {"a", "b", "c", "d", "e", "f", "g", "h", "i", "j", "k", "l", "m",
           "n", "o", "p", "q", "r", "s", "t", "u", "v", "w", "x", "y", "z",
           "A", "B", "C", "D", "E", "F", "G", "H", "I", "J", "K", "L", "M",
           "N", "O", "P", "Q", "R", "S", "T", "U", "V", "W", "X", "Y", "Z"}

\* combinators::ascii_alpha: `mut i` is advanced by next() before the error
\* is built from it.
ascii_alpha(i) ==
    LET n == next(i)
    IN  IF n.item # <<>>
        THEN IF is_ascii_alphabetic(n.item[1])
             THEN Complete(n.iter, n.item[1])
             ELSE Fail(Error_new("Not an alpha character", n.iter))
        ELSE Fail(Error_new("Unexpected End Of Input.", n.iter))

\* (*b as char).is_whitespace(): the bytes 0x09 to 0x0D (tab, line feed,
\* vertical tab, form feed, carriage return), 0x20 (space), 0x85 and 0xA0.
is_whitespace(b) == b \in {"\t", "\n", "", "\f", "\r", " ", "", " "}

\* combinators::ascii_ws: `mut i` is advanced by next() before the error is
\* built from it.
ascii_ws(i) ==
    LET n == next(i)
    IN  IF n.item # <<>>
        THEN IF is_whitespace(n.item[1])
             THEN Complete(n.iter, n.item[1])
             ELSE Fail(Error_new("Not whitespace", n.iter))
        ELSE Fail(Error_new("Unexpected End Of Input", n.iter))

is_ascii_digit(b) == b \in {"0", "1", "2", "3", "4", "5", "6", "7", "8", "9"}

\* combinators::ascii_digit
ascii_digit(i) ==
    LET n == next(i)
    IN  IF n.item # <<>>
        THEN IF is_ascii_digit(n.item[1])
             THEN Complete(n.iter, n.item[1])
             ELSE Fail(Error_new("Not an digit character", n.iter))
        ELSE Fail(Error_new("Unexpected End Of Input.", n.iter))

\* combinators::ascii_alphanumeric
ascii_alphanumeric(i) ==
    LET n == next(i)
    IN  IF n.item # <<>>
        THEN IF is_ascii_alphabetic(n.item[1]) \/ is_ascii_digit(n.item[1])
             THEN Complete(n.iter, n.item[1])
             ELSE Fail(Error_new("Not an alphanumeric character", n.iter))
        ELSE Fail(Error_new("Unexpected End Of Input.", n.iter))

\* test.rs: will_fail
will_fail(i) == Fail(Error_new("AAAAHHH!!!", i))

\* test.rs: parse_byte
parse_byte(i) ==
    LET n == next(i)
    IN  IF n.item # <<>> THEN Complete(n.iter, n.item[1]) ELSE Incomplete(n.iter)

(***************************************************************************)
(* combinators.rs: the macros.  A sub-rule is a function from the cursor   *)
(* it is invoked with to the Result it returns.  The macros that invoke    *)
(* sub-rules more than once come as X_run, which returns the Result `res`  *)
(* together with `calls`, the invocations made in order (which sub-rule,   *)
(* at which cursor, what it returned), and X_m, the Result alone.          *)
(***************************************************************************)
Call(k, i, r) == [rule |-> k, at |-> i, ret |-> r]

\* trap!($i, $f!(...))
trap_m(i, R) == trap(R[i])

\* A not! that hands the sub-rule's Result to not() without trap!.
not_m_mut(i, R) ==
    LET _i == i
    IN  not(_i, R[i])

\* not!($i, $f!(...)): `let _i = $i.clone(); not(_i, trap!($i.clone(), $f!(...)))`
not_m(i, R) ==
    LET _i == i
    IN  not(_i, trap_m(i, R))

\* A peek that keeps the cursor the sub-rule advanced to.
peek_m_mut(i, R) ==
    LET _i == i
        r == R[_i]
    IN  CASE r.kind = "Complete" -> Complete(r.iter, r.out)
          [] r.kind = "Incomplete" -> Incomplete(r.ctx)
          [] r.kind = "Abort" -> Abort(r.err)
          [] r.kind = "Fail" -> Fail(r.err)

\* peek!($i, $f!(...))
peek_m(i, R) ==
    LET _i == i
        r == R[_i]
    IN  CASE r.kind = "Complete" -> Complete(i, r.out)
          [] r.kind = "Incomplete" -> Incomplete(r.ctx)
          [] r.kind = "Abort" -> Abort(r.err)
          [] r.kind = "Fail" -> Fail(r.err)

\* must!($i, $f!(...))
must_m(i, R) == must(R[i])

\* A wrap_err! that positions the new error where the wrapped one is.
wrap_err_m_mut(i, R, e) ==
    LET _i == i
        r == R[i]
    IN  CASE r.kind = "Complete" -> Complete(r.iter, r.out)
          [] r.kind = "Incomplete" -> Incomplete(r.ctx)
          [] r.kind = "Fail" -> Fail(Error_caused_by(e, r.err, r.err.context))
          [] r.kind = "Abort" -> Abort(Error_caused_by(e, r.err, r.err.context))

\* wrap_err!($i, $f!(...), $e)
wrap_err_m(i, R, e) ==
    LET _i == i
        r == R[i]
    IN  CASE r.kind = "Complete" -> Complete(r.iter, r.out)
          [] r.kind = "Incomplete" -> Incomplete(r.ctx)
          [] r.kind = "Fail" -> Fail(Error_caused_by(e, r.err, _i))
          [] r.kind = "Abort" -> Abort(Error_caused_by(e, r.err, _i))

\* must_complete!($i, $e, $f!(...))
must_complete_m(i, e, R) == must_complete(R[i], e)

\* complete!($i, $e, $f!(...))
complete_m(i, e, R) == complete(R[i], e)

\* optional!($i, $f!(...)): `let _i = $i.clone(); optional(_i, $f!($i, ...))`
optional_m(i, R) ==
    LET _i == i
    IN  optional(_i, R[i])

\* discard!($i, $rule!(...))
discard_m(i, R) ==
    LET r == R[i]
    IN  CASE r.kind = "Complete" -> Complete(r.iter, Unit)
          [] r.kind = "Incomplete" -> Incomplete(r.ctx)
          [] r.kind = "Fail" -> Fail(r.err)
          [] r.kind = "Abort" -> Abort(r.err)

\* A do_each! that starts every step from the cursor it was handed.
RECURSIVE do_each_impl_mut(_, _, _, _, _)
do_each_impl_mut(i, steps, k, vals, calls) ==
    IF k > Len(steps)
    THEN [res |-> Complete(i, vals), calls |-> calls]
    ELSE LET r == steps[k].rule[i]
             calls2 == Append(calls, Call(k, i, r))
         IN  CASE r.kind = "Complete" ->
                    do_each_impl_mut(IF k < Len(steps) THEN i ELSE r.iter,
                                     steps, k + 1,
                                     IF steps[k].bind THEN Append(vals, r.out) ELSE vals,
                                     calls2)
               [] r.kind = "Incomplete" ->
                    [res |-> Incomplete(r.ctx), calls |-> calls2]
               [] r.kind = "Fail" -> [res |-> Fail(r.err), calls |-> calls2]
               [] r.kind = "Abort" -> [res |-> Abort(r.err), calls |-> calls2]

\* do_each!($i, name => rule, ..., (expr)): steps is the sequence of the
\* steps, each [bind |-> whether its value is bound to a name, rule |-> R];
\* vals is the tuple of the values bound so far, the out of the terminal arm.
RECURSIVE do_each_impl(_, _, _, _, _)
do_each_impl(i, steps, k, vals, calls) ==
    IF k > Len(steps)
    THEN [res |-> Complete(i, vals), calls |-> calls]
    ELSE LET r == steps[k].rule[i]
             calls2 == Append(calls, Call(k, i, r))
         IN  CASE r.kind = "Complete" ->
                    do_each_impl(r.iter, steps, k + 1,
                                 IF steps[k].bind THEN Append(vals, r.out) ELSE vals,
                                 calls2)
               [] r.kind = "Incomplete" ->
                    [res |-> Incomplete(r.ctx), calls |-> calls2]
               [] r.kind = "Fail" -> [res |-> Fail(r.err), calls |-> calls2]
               [] r.kind = "Abort" -> [res |-> Abort(r.err), calls |-> calls2]

do_each_run(i, steps) == do_each_impl(i, steps, 1, <<>>, <<>>)

do_each_m(i, steps) == do_each_run(i, steps).res

\* An either that hands the next alternative the cursor the failed one
\* stopped at.
RECURSIVE either_impl_leak_mut(_, _, _, _)
either_impl_leak_mut(i, alts, k, calls) ==
    LET r == alts[k][i]
        calls2 == Append(calls, Call(k, i, r))
    IN  IF k = Len(alts)
        THEN [res |-> CASE r.kind = "Complete" -> Complete(r.iter, r.out)
                        [] r.kind = "Incomplete" -> Incomplete(r.ctx)
                        [] r.kind = "Fail" -> Fail(r.err)
                        [] r.kind = "Abort" -> Abort(r.err),
              calls |-> calls2]
        ELSE LET _i == i
             IN  CASE r.kind = "Complete" ->
                        [res |-> Complete(r.iter, r.out), calls |-> calls2]
                   [] r.kind = "Incomplete" ->
                        [res |-> Incomplete(r.ctx), calls |-> calls2]
                   [] r.kind = "Fail" -> either_impl_leak_mut(r.err.context, alts, k + 1, calls2)
                   [] r.kind = "Abort" ->
                        [res |-> Abort(r.err), calls |-> calls2]

\* An either that goes on to the next alternative after an Abort.
RECURSIVE either_impl_abort_mut(_, _, _, _)
either_impl_abort_mut(i, alts, k, calls) ==
    LET r == alts[k][i]
        calls2 == Append(calls, Call(k, i, r))
    IN  IF k = Len(alts)
        THEN [res |-> CASE r.kind = "Complete" -> Complete(r.iter, r.out)
                        [] r.kind = "Incomplete" -> Incomplete(r.ctx)
                        [] r.kind = "Fail" -> Fail(r.err)
                        [] r.kind = "Abort" -> Abort(r.err),
              calls |-> calls2]
        ELSE LET _i == i
             IN  CASE r.kind = "Complete" ->
                        [res |-> Complete(r.iter, r.out), calls |-> calls2]
                   [] r.kind = "Incomplete" ->
                        [res |-> Incomplete(r.ctx), calls |-> calls2]
                   [] r.kind = "Fail" -> either_impl_abort_mut(_i, alts, k + 1, calls2)
                   [] r.kind = "Abort" ->
                        either_impl_abort_mut(_i, alts, k + 1, calls2)

\* either!(__impl $i, ...): the termination clause for the last alternative
\* and the internal loop clause for the others.
RECURSIVE either_impl(_, _, _, _)
either_impl(i, alts, k, calls) ==
    LET r == alts[k][i]
        calls2 == Append(calls, Call(k, i, r))
    IN  IF k = Len(alts)
        THEN [res |-> CASE r.kind = "Complete" -> Complete(r.iter, r.out)
                        [] r.kind = "Incomplete" -> Incomplete(r.ctx)
                        [] r.kind = "Fail" -> Fail(r.err)
                        [] r.kind = "Abort" -> Abort(r.err),
              calls |-> calls2]
        ELSE LET _i == i
             IN  CASE r.kind = "Complete" ->
                        [res |-> Complete(r.iter, r.out), calls |-> calls2]
                   [] r.kind = "Incomplete" ->
                        [res |-> Incomplete(r.ctx), calls |-> calls2]
                   [] r.kind = "Fail" -> either_impl(_i, alts, k + 1, calls2)
                   [] r.kind = "Abort" ->
                        [res |-> Abort(r.err), calls |-> calls2]

either_run(i, alts) == either_impl(i, alts, 1, <<>>)

either_m(i, alts) == either_run(i, alts).res

\* A repeat that takes an Abort for the end of the repetition.
RECURSIVE repeat_loop_abort_mut(_, _, _, _, _, _)
repeat_loop_abort_mut(i, R, _i, seq, calls, heads) ==
    LET __i == _i
        r == R[_i]
        calls2 == Append(calls, Call(1, _i, r))
    IN  CASE r.kind = "Complete" ->
               IF r.iter \in heads \cup {__i}
               THEN [res |-> Diverge, calls |-> calls2]
               ELSE repeat_loop_abort_mut(i, R, r.iter, Append(seq, r.out),
                                          calls2, heads \cup {__i})
          [] r.kind = "Abort" -> [res |-> Complete(__i, seq), calls |-> calls2]
          [] r.kind = "Incomplete" ->
               [res |-> Complete(__i, seq), calls |-> calls2]
          [] r.kind = "Fail" -> [res |-> Complete(__i, seq), calls |-> calls2]

\* A repeat that rewinds to its entry cursor, not to the cursor before the
\* attempt that failed.
RECURSIVE repeat_loop_rewind_mut(_, _, _, _, _, _)
repeat_loop_rewind_mut(i, R, _i, seq, calls, heads) ==
    LET __i == _i
        r == R[_i]
        calls2 == Append(calls, Call(1, _i, r))
    IN  CASE r.kind = "Complete" ->
               IF r.iter \in heads \cup {__i}
               THEN [res |-> Diverge, calls |-> calls2]
               ELSE repeat_loop_rewind_mut(i, R, r.iter, Append(seq, r.out),
                                           calls2, heads \cup {__i})
          [] r.kind = "Abort" -> [res |-> Abort(r.err), calls |-> calls2]
          [] r.kind = "Incomplete" -> [res |-> Complete(i, seq), calls |-> calls2]
          [] r.kind = "Fail" -> [res |-> Complete(i, seq), calls |-> calls2]

\* A repeat that positions the error of an Abort at its entry cursor.
RECURSIVE repeat_loop_reposition_mut(_, _, _, _, _, _)
repeat_loop_reposition_mut(i, R, _i, seq, calls, heads) ==
    LET __i == _i
        r == R[_i]
        calls2 == Append(calls, Call(1, _i, r))
    IN  CASE r.kind = "Complete" ->
               IF r.iter \in heads \cup {__i}
               THEN [res |-> Diverge, calls |-> calls2]
               ELSE repeat_loop_reposition_mut(i, R, r.iter, Append(seq, r.out),
                                               calls2, heads \cup {__i})
          [] r.kind = "Abort" ->
               [res |-> Abort([r.err EXCEPT !.context = i]), calls |-> calls2]
          [] r.kind = "Incomplete" ->
               [res |-> Complete(__i, seq), calls |-> calls2]
          [] r.kind = "Fail" -> [res |-> Complete(__i, seq), calls |-> calls2]

\* A repeat that ends the repetition at an attempt that completes without
\* moving the cursor.
RECURSIVE repeat_loop_guard_mut(_, _, _, _, _, _)
repeat_loop_guard_mut(i, R, _i, seq, calls, heads) ==
    LET __i == _i
        r == R[_i]
        calls2 == Append(calls, Call(1, _i, r))
    IN  CASE r.kind = "Complete" ->
               IF r.iter \in heads \cup {__i}
               THEN [res |-> Complete(__i, seq), calls |-> calls2]
               ELSE repeat_loop_guard_mut(i, R, r.iter, Append(seq, r.out),
                                          calls2, heads \cup {__i})
          [] r.kind = "Abort" -> [res |-> Abort(r.err), calls |-> calls2]
          [] r.kind = "Incomplete" ->
               [res |-> Complete(__i, seq), calls |-> calls2]
          [] r.kind = "Fail" -> [res |-> Complete(__i, seq), calls |-> calls2]

\* repeat!($i, $f!(...)): the loop, from the working cursor _i with the
\* values seq accumulated so far.  heads is the set of the cursors the loop
\* has already started an iteration from.
RECURSIVE repeat_loop(_, _, _, _, _, _)
repeat_loop(i, R, _i, seq, calls, heads) ==
    LET __i == _i
        r == R[_i]
        calls2 == Append(calls, Call(1, _i, r))
    IN  CASE r.kind = "Complete" ->
               IF r.iter \in heads \cup {__i}
               THEN [res |-> Diverge, calls |-> calls2]
               ELSE repeat_loop(i, R, r.iter, Append(seq, r.out), calls2,
                                heads \cup {__i})
          [] r.kind = "Abort" -> [res |-> Abort(r.err), calls |-> calls2]
          [] r.kind = "Incomplete" ->
               [res |-> Complete(__i, seq), calls |-> calls2]
          [] r.kind = "Fail" -> [res |-> Complete(__i, seq), calls |-> calls2]

repeat_run(i, R) == repeat_loop(i, R, i, <<>>, <<>>, {})

repeat_m(i, R) == repeat_run(i, R).res

\* Result::Complete(c, $i.span(SpanRange::Range(from..to))): a panic of
\* span is the outcome of the macro.
Complete_span(c, i, from, to) ==
    IF span_ok(from, to) THEN Complete(c, span(i, from, to)) ELSE Panic

\* An until that returns the cursor after the terminator.
RECURSIVE until_loop_mut(_, _, _, _, _)
until_loop_mut(i, R, _i, start_offset, calls) ==
    LET r == R[_i]
        calls2 == Append(calls, Call(1, _i, r))
    IN  CASE r.kind = "Complete" ->
               [res |-> Complete_span(r.iter, i, start_offset, get_offset(_i)),
                calls |-> calls2]
          [] r.kind = "Abort" -> [res |-> Abort(r.err), calls |-> calls2]
          [] r.kind = "Incomplete" ->
               [res |-> Incomplete(r.ctx), calls |-> calls2]
          [] r.kind = "Fail" ->
               LET n == next(_i)
               IN  IF n.item = <<>>
                   THEN [res |-> Incomplete(n.iter), calls |-> calls2]
                   ELSE until_loop_mut(i, R, n.iter, start_offset, calls2)

\* An until that tries the terminator a second time where it failed, before
\* it moves on.
RECURSIVE until_loop_twice_mut(_, _, _, _, _)
until_loop_twice_mut(i, R, _i, start_offset, calls) ==
    LET r == R[_i]
        calls2 == Append(calls, Call(1, _i, r))
    IN  CASE r.kind = "Complete" ->
               [res |-> Complete_span(_i, i, start_offset, get_offset(_i)),
                calls |-> calls2]
          [] r.kind = "Abort" -> [res |-> Abort(r.err), calls |-> calls2]
          [] r.kind = "Incomplete" ->
               [res |-> Incomplete(r.ctx), calls |-> calls2]
          [] r.kind = "Fail" ->
               LET n == next(_i)
                   calls3 == Append(calls2, Call(1, _i, r))
               IN  IF n.item = <<>>
                   THEN [res |-> Incomplete(n.iter), calls |-> calls3]
                   ELSE until_loop_twice_mut(i, R, n.iter, start_offset, calls3)

\* until!($i, $rule!(...)): the loop of the closure pfn.
RECURSIVE until_loop(_, _, _, _, _)
until_loop(i, R, _i, start_offset, calls) ==
    LET r == R[_i]
        calls2 == Append(calls, Call(1, _i, r))
    IN  CASE r.kind = "Complete" ->
               [res |-> Complete_span(_i, i, start_offset, get_offset(_i)),
                calls |-> calls2]
          [] r.kind = "Abort" -> [res |-> Abort(r.err), calls |-> calls2]
          [] r.kind = "Incomplete" ->
               [res |-> Incomplete(r.ctx), calls |-> calls2]
          [] r.kind = "Fail" ->
               LET n == next(_i)
               IN  IF n.item = <<>>
                   THEN [res |-> Incomplete(n.iter), calls |-> calls2]
                   ELSE until_loop(i, R, n.iter, start_offset, calls2)

until_run(i, R) == until_loop(i, R, i, get_offset(i), <<>>)

until_m(i, R) == until_run(i, R).res

\* A consume_all! that returns the cursor it was handed.
RECURSIVE consume_all_loop_mut(_, _, _, _, _)
consume_all_loop_mut(i, R, _i, start_offset, calls) ==
    LET r == R[_i]
        calls2 == Append(calls, Call(1, _i, r))
    IN  CASE r.kind = "Complete" ->
               LET n == next(_i)
               IN  IF n.item = <<>>
                   THEN [res |-> Incomplete(n.iter), calls |-> calls2]
                   ELSE consume_all_loop_mut(i, R, n.iter, start_offset, calls2)
          [] r.kind = "Abort" -> [res |-> Abort(r.err), calls |-> calls2]
          [] r.kind = "Incomplete" ->
               [res |-> Incomplete(r.ctx), calls |-> calls2]
          [] r.kind = "Fail" ->
               [res |-> Complete_span(i, i, start_offset, get_offset(_i)),
                calls |-> calls2]

\* A consume_all! that goes on from the cursor the rule returned.
RECURSIVE consume_all_loop_jump_mut(_, _, _, _, _)
consume_all_loop_jump_mut(i, R, _i, start_offset, calls) ==
    LET r == R[_i]
        calls2 == Append(calls, Call(1, _i, r))
    IN  CASE r.kind = "Complete" ->
               LET n == next(_i)
               IN  IF n.item = <<>>
                   THEN [res |-> Incomplete(n.iter), calls |-> calls2]
                   ELSE consume_all_loop_jump_mut(i, R,
                            IF r.iter.offset > n.iter.offset THEN r.iter ELSE n.iter,
                            start_offset, calls2)
          [] r.kind = "Abort" -> [res |-> Abort(r.err), calls |-> calls2]
          [] r.kind = "Incomplete" ->
               [res |-> Incomplete(r.ctx), calls |-> calls2]
          [] r.kind = "Fail" ->
               [res |-> Complete_span(_i, i, start_offset, get_offset(_i)),
                calls |-> calls2]

\* consume_all!($i, $rule!(...)): the loop of the closure pfn.
RECURSIVE consume_all_loop(_, _, _, _, _)
consume_all_loop(i, R, _i, start_offset, calls) ==
    LET r == R[_i]
        calls2 == Append(calls, Call(1, _i, r))
    IN  CASE r.kind = "Complete" ->
               LET n == next(_i)
               IN  IF n.item = <<>>
                   THEN [res |-> Incomplete(n.iter), calls |-> calls2]
                   ELSE consume_all_loop(i, R, n.iter, start_offset, calls2)
          [] r.kind = "Abort" -> [res |-> Abort(r.err), calls |-> calls2]
          [] r.kind = "Incomplete" ->
               [res |-> Incomplete(r.ctx), calls |-> calls2]
          [] r.kind = "Fail" ->
               [res |-> Complete_span(_i, i, start_offset, get_offset(_i)),
                calls |-> calls2]

consume_all_run(i, R) == consume_all_loop(i, R, i, get_offset(i), <<>>)

consume_all_m(i, R) == consume_all_run(i, R).res

\* The steps `_ => $sep_rule, item => $item_rule, (item)` of separated!.
separated_steps(sep, item) ==
    <<[bind |-> FALSE, rule |-> sep], [bind |-> TRUE, rule |-> item]>>

\* The rule separated! repeats: do_each!(_ => sep, item => item, (item)),
\* whose value is the one bound value.
separated_pair(sep, item) ==
    [c \in Cursors |->
        LET r == do_each_m(c, separated_steps(sep, item))
        IN  IF r.kind = "Complete" THEN Complete(r.iter, r.out[1]) ELSE r]

RECURSIVE separated_calls(_, _, _)
separated_calls(attempts, sep, item) ==
    IF attempts = <<>> THEN <<>>
    ELSE do_each_run(Head(attempts).at, separated_steps(sep, item)).calls
         \o separated_calls(Tail(attempts), sep, item)

\* A separated! that leaves the head item out of the list it returns.
separated_run_mut(i, sep, item) ==
    LET _i == i
        head == item[i]
        hcall == <<Call(2, i, head)>>
    IN  CASE head.kind = "Incomplete" ->
               [res |-> Incomplete(head.ctx), calls |-> hcall]
          [] head.kind = "Fail" -> [res |-> Fail(head.err), calls |-> hcall]
          [] head.kind = "Abort" -> [res |-> Abort(head.err), calls |-> hcall]
          [] head.kind = "Complete" ->
               LET list == <<>>
                   tail == repeat_run(head.iter, separated_pair(sep, item))
                   tail_result == tail.res
                   calls == hcall \o separated_calls(tail.calls, sep, item)
               IN  CASE tail_result.kind = "Fail" ->
                          [res |-> Fail(tail_result.err), calls |-> calls]
                     [] tail_result.kind = "Incomplete" ->
                          [res |-> Incomplete(tail_result.ctx), calls |-> calls]
                     [] tail_result.kind = "Abort" ->
                          [res |-> Abort(tail_result.err), calls |-> calls]
                     [] tail_result.kind = "Complete" ->
                          [res |-> Complete(tail_result.iter,
                                            list \o tail_result.out),
                           calls |-> calls]
                     [] tail_result.kind = "Diverge" ->
                          [res |-> Diverge, calls |-> calls]

\* A separated! that answers an Abort of the repetition with the items it
\* has parsed.
separated_run_keep_mut(i, sep, item) ==
    LET _i == i
        head == item[i]
        hcall == <<Call(2, i, head)>>
    IN  CASE head.kind = "Incomplete" ->
               [res |-> Incomplete(head.ctx), calls |-> hcall]
          [] head.kind = "Fail" -> [res |-> Fail(head.err), calls |-> hcall]
          [] head.kind = "Abort" -> [res |-> Abort(head.err), calls |-> hcall]
          [] head.kind = "Complete" ->
               LET list == <<head.out>>
                   tail == repeat_run(head.iter, separated_pair(sep, item))
                   tail_result == tail.res
                   calls == hcall \o separated_calls(tail.calls, sep, item)
               IN  CASE tail_result.kind = "Fail" ->
                          [res |-> Fail(tail_result.err), calls |-> calls]
                     [] tail_result.kind = "Incomplete" ->
                          [res |-> Incomplete(tail_result.ctx), calls |-> calls]
                     [] tail_result.kind = "Abort" ->
                          [res |-> Complete(head.iter, list), calls |-> calls]
                     [] tail_result.kind = "Complete" ->
                          [res |-> Complete(tail_result.iter,
                                            list \o tail_result.out),
                           calls |-> calls]
                     [] tail_result.kind = "Diverge" ->
                          [res |-> Diverge, calls |-> calls]

\* separated!($i, $sep_rule!(...), $item_rule!(...)); in calls the separator
\* is sub-rule 1 and the item sub-rule 2.
separated_run(i, sep, item) ==
    LET _i == i
        head == item[i]
        hcall == <<Call(2, i, head)>>
    IN  CASE head.kind = "Incomplete" ->
               [res |-> Incomplete(head.ctx), calls |-> hcall]
          [] head.kind = "Fail" -> [res |-> Fail(head.err), calls |-> hcall]
          [] head.kind = "Abort" -> [res |-> Abort(head.err), calls |-> hcall]
          [] head.kind = "Complete" ->
               LET list == <<head.out>>
                   tail == repeat_run(head.iter, separated_pair(sep, item))
                   tail_result == tail.res
                   calls == hcall \o separated_calls(tail.calls, sep, item)
               IN  CASE tail_result.kind = "Fail" ->
                          [res |-> Fail(tail_result.err), calls |-> calls]
                     [] tail_result.kind = "Incomplete" ->
                          [res |-> Incomplete(tail_result.ctx), calls |-> calls]
                     [] tail_result.kind = "Abort" ->
                          [res |-> Abort(tail_result.err), calls |-> calls]
                     [] tail_result.kind = "Complete" ->
                          [res |-> Complete(tail_result.iter,
                                            list \o tail_result.out),
                           calls |-> calls]
                     [] tail_result.kind = "Diverge" ->
                          [res |-> Diverge, calls |-> calls]

separated_m(i, sep, item) == separated_run(i, sep, item).res

(***************************************************************************)
(* The named rules the combinators are applied to, as make_fn! would       *)
(* define them, and run!, which turns a rule's name into its invocation.   *)
(***************************************************************************)
\* input!($i)
input_m(i) ==
    LET _i == i
    IN  Complete(i, _i)

\* The value of a do_each! whose final expression is its one bound name.
Bound1(r) == IF r.kind = "Complete" THEN Complete(r.iter, r.out[1]) ELSE r

Slashes == <<":", "/", "/">>

\* integration_tests.rs: proto
proto(i) ==
    Bound1(do_each_m(i,
        <<[bind |-> TRUE,
           rule |-> [c \in Cursors |->
                       until_m(c, [d \in Cursors |-> text_token(d, Slashes)])]],
          [bind |-> FALSE,
           rule |-> [c \in Cursors |->
                       must_m(c, [d \in Cursors |-> text_token(d, Slashes)])]]>>))

\* A domain that does not stop at "/".
domain_mut(i) ==
    until_m(i, [c \in Cursors |->
        either_m(c, <<[d \in Cursors |->
                         discard_m(d, [x \in Cursors |-> ascii_ws(x)])],
                      [d \in Cursors |-> eoi(d)]>>)])

\* integration_tests.rs: domain
domain(i) ==
    until_m(i, [c \in Cursors |->
        either_m(c, <<[d \in Cursors |->
                         discard_m(d, [x \in Cursors |-> text_token(x, <<"/">>)])],
                      [d \in Cursors |->
                         discard_m(d, [x \in Cursors |-> ascii_ws(x)])],
                      [d \in Cursors |-> eoi(d)]>>)])

\* integration_tests.rs: path
path(i) ==
    until_m(i, [c \in Cursors |->
        either_m(c, <<[d \in Cursors |->
                         discard_m(d, [x \in Cursors |-> ascii_ws(x)])],
                      [d \in Cursors |-> eoi(d)]>>)])

\* integration_tests.rs: url; the value is the tuple (protocol, domain, path).
url(i) ==
    do_each_m(i,
        <<[bind |-> FALSE, rule |-> [c \in Cursors |-> input_m(c)]],
          [bind |-> TRUE,
           rule |-> [c \in Cursors |-> optional_m(c, [d \in Cursors |-> proto(d)])]],
          [bind |-> TRUE,
           rule |-> [c \in Cursors |-> optional_m(c, [d \in Cursors |-> domain(d)])]],
          [bind |-> TRUE, rule |-> [c \in Cursors |-> path(c)]]>>)

\* The rule of the domain of both url grammars: the scan to "/", white space
\* or the end of the input.
domain_scan == [c \in Cursors |-> domain(c)]

\* A domain without the step that refuses a leading "/".
domain_doc_mut(i) ==
    Bound1(do_each_m(i, <<[bind |-> TRUE, rule |-> domain_scan]>>))

\* lib.rs, crate documentation: domain
domain_doc(i) ==
    Bound1(do_each_m(i,
        <<[bind |-> FALSE,
           rule |-> [c \in Cursors |->
                       peek_m(c, [d \in Cursors |->
                           not_m(d, [x \in Cursors |-> text_token(x, <<"/">>)])])]],
          [bind |-> TRUE, rule |-> domain_scan]>>))

\* lib.rs, crate documentation: full_url; the value is the tuple
\* (Some(protocol), Some(domain), path).
full_url(i) ==
    LET r == do_each_m(i,
                <<[bind |-> TRUE, rule |-> [c \in Cursors |-> proto(c)]],
                  [bind |-> TRUE,
                   rule |-> [c \in Cursors |->
                               must_m(c, [d \in Cursors |-> domain_doc(d)])]],
                  [bind |-> TRUE,
                   rule |-> [c \in Cursors |->
                               optional_m(c, [d \in Cursors |-> path(d)])]]>>)
    IN  IF r.kind = "Complete"
        THEN Complete(r.iter, <<Some(r.out[1]), Some(r.out[2]), r.out[3]>>)
        ELSE r

\* lib.rs, crate documentation: relative_url; the value is the tuple
\* (None, None, Some(path)).
relative_url(i) ==
    LET r == do_each_m(i,
                <<[bind |-> FALSE,
                   rule |-> [c \in Cursors |->
                               not_m(c, [d \in Cursors |->
                                   either_m(d,
                                       <<[x \in Cursors |-> text_token(x, <<"/", "/">>)],
                                         [x \in Cursors |-> proto(x)]>>)])]],
                  [bind |-> TRUE, rule |-> [c \in Cursors |-> path(c)]]>>)
    IN  IF r.kind = "Complete"
        THEN Complete(r.iter, <<None, None, Some(r.out[1])>>)
        ELSE r

RuleNames ==
    {"will_fail", "parse_byte", "must_will_fail", "tok_a", "tok_semi",
     "must_tok_a", "eoi", "ascii_alpha", "until_semi", "optional_tok_a"}

\* run!($i, $f) => $f($i)
run(i, f) ==
    CASE f = "will_fail" -> will_fail(i)
      [] f = "parse_byte" -> parse_byte(i)
      [] f = "must_will_fail" -> must(will_fail(i))
      [] f = "tok_a" -> text_token(i, <<"a">>)
      [] f = "tok_semi" -> text_token(i, <<";">>)
      [] f = "tok_comma" -> text_token(i, <<",">>)
      [] f = "tok_aa" -> text_token(i, <<"a", "a">>)
      [] f = "tok_nbsp" -> text_token(i, <<"Â", " ">>)
      [] f = "must_tok_a" -> must(text_token(i, <<"a">>))
      [] f = "eoi" -> eoi(i)
      [] f = "ascii_alpha" -> ascii_alpha(i)
      [] f = "until_semi" ->
            until_m(i, [c \in Cursors |-> text_token(c, <<";">>)])
      [] f = "optional_tok_a" -> optional(i, text_token(i, <<"a">>))
      [] f = "ascii_ws" -> ascii_ws(i)
      [] f = "ascii_digit" -> ascii_digit(i)
      [] f = "ascii_alphanumeric" -> ascii_alphanumeric(i)
      [] f = "proto" -> proto(i)
      [] f = "domain" -> domain(i)
      [] f = "path" -> path(i)
      [] f = "url" -> url(i)

\* The rule named f as a function of the cursor it is invoked with.
Rule(f) == [c \in Cursors |-> run(c, f)]

Rules(fs) == [k \in 1..Len(fs) |-> Rule(fs[k])]

Steps(fs, binds) == [k \in 1..Len(fs) |-> [bind |-> binds[k], rule |-> Rule(fs[k])]]

\* The message handed to must_complete! and complete!.
Msg == "AHHH"

(***************************************************************************)
(* The state machine: a cursor is built over a source, advanced with       *)
(* next() any number of times, and then one combinator is applied to it.   *)
(***************************************************************************)
Idle == [op |-> "idle", rules |-> <<>>, entry |-> StrIter_new,
         res |-> [kind |-> "None"], calls |-> <<>>]

Init ==
    /\ source \in Sources
    /\ iter = StrIter_new
    /\ last = Idle
    /\ tasks = <<>>

Applied(op, fs, res, calls) ==
    /\ last.op = "idle"
    /\ last' = [op |-> op, rules |-> fs, entry |-> iter, res |-> res,
                calls |-> calls]
    /\ UNCHANGED <<source, iter, tasks>>

\* iter.next()
Next_item ==
    /\ last.op = "idle"
    /\ next(iter).item # <<>>
    /\ iter' = next(iter).iter
    /\ UNCHANGED <<source, last, tasks>>

\* A combinator that invokes its one sub-rule once, at the entry cursor.
Single(op, f, res) ==
    Applied(op, <<f>>, res, <<Call(1, iter, Rule(f)[iter])>>)

Do_not == \E f \in RuleNames : Single("not", f, not_m(iter, Rule(f)))

Do_peek == \E f \in RuleNames : Single("peek", f, peek_m(iter, Rule(f)))

Do_must == \E f \in RuleNames : Single("must", f, must_m(iter, Rule(f)))

Do_trap == \E f \in RuleNames : Single("trap", f, trap_m(iter, Rule(f)))

\* trap!(iter, must!(f))
Do_trap_must ==
    \E f \in RuleNames :
        Single("trap_must", f, trap_m(iter, [c \in Cursors |-> must_m(c, Rule(f))]))

Do_must_complete ==
    \E f \in RuleNames :
        Single("must_complete", f, must_complete_m(iter, Msg, Rule(f)))

Do_complete ==
    \E f \in RuleNames : Single("complete", f, complete_m(iter, Msg, Rule(f)))

Do_optional ==
    \E f \in RuleNames : Single("optional", f, optional_m(iter, Rule(f)))

Do_discard ==
    \E f \in RuleNames : Single("discard", f, discard_m(iter, Rule(f)))

\* do_each!(iter, a => f, b => g, (a, b))
Do_do_each ==
    \E f, g \in RuleNames :
        LET d == do_each_run(iter, Steps(<<f, g>>, <<TRUE, TRUE>>))
        IN  Applied("do_each", <<f, g>>, d.res, d.calls)

\* The alternatives of the three-way either!.
EitherNames == {"will_fail", "ascii_alpha", "tok_semi", "must_tok_a", "parse_byte"}

Do_either ==
    \E fs \in {<<f, g>> : f, g \in RuleNames}
                \cup {<<f, g, h>> : f, g, h \in EitherNames} :
        LET e == either_run(iter, Rules(fs))
        IN  Applied("either", fs, e.res, e.calls)

Do_repeat ==
    \E f \in RuleNames :
        LET r == repeat_run(iter, Rule(f))
        IN  Applied("repeat", <<f>>, r.res, r.calls)

Do_until ==
    \E f \in RuleNames :
        LET r == until_run(iter, Rule(f))
        IN  Applied("until", <<f>>, r.res, r.calls)

\* The rules handed to consume_all!: the rules above and a rule that
\* consumes two elements.
ConsumeNames == RuleNames \cup {"tok_aa"}

Do_consume_all ==
    \E f \in ConsumeNames :
        LET r == consume_all_run(iter, Rule(f))
        IN  Applied("consume_all", <<f>>, r.res, r.calls)

\* The messages handed to wrap_err!.
WrapMsg == "haha!"

InnerMsg == "inner"

\* The rule f, or wrap_err!(f, InnerMsg) when it is wrapped once already.
Wrapped(f, inner) ==
    IF inner THEN [c \in Cursors |-> wrap_err_m(c, Rule(f), InnerMsg)] ELSE Rule(f)

\* wrap_err!(iter, f, WrapMsg) and wrap_err!(iter, wrap_err!(f, InnerMsg), WrapMsg)
Do_wrap_err ==
    \E f \in RuleNames : \E inner \in BOOLEAN :
        Applied(IF inner THEN "wrap_err2" ELSE "wrap_err", <<f>>,
                wrap_err_m(iter, Wrapped(f, inner), WrapMsg),
                <<Call(1, iter, Wrapped(f, inner)[iter])>>)

\* The literals handed to text_token!: every string of at most MaxLit
\* elements of the alphabet, the empty one included.
MaxLit == 2

Lits == SeqsUpTo(Alphabet, MaxLit)

\* text_token!(iter, e)
Do_text_token ==
    \E e \in Lits : Applied("text_token", <<e>>, text_token(iter, e), <<>>)

\* separated!(iter, sep, item)
Do_separated ==
    \E sep, item \in RuleNames :
        LET r == separated_run(iter, Rule(sep), Rule(item))
        IN  Applied("separated", <<sep, item>>, r.res, r.calls)

Next ==
    \/ Next_item
    \/ Do_not
    \/ Do_peek
    \/ Do_must
    \/ Do_trap
    \/ Do_trap_must
    \/ Do_must_complete
    \/ Do_complete
    \/ Do_optional
    \/ Do_discard
    \/ Do_do_each
    \/ Do_either
    \/ Do_repeat
    \/ Do_until
    \/ Do_consume_all
    \/ Do_separated
    \/ Do_text_token
    \/ Do_wrap_err

Spec == Init /\ [][Next]_vars

\* The separated-list runs: a cursor anywhere in a list input, and one
\* separated! over it.
InitSep ==
    /\ source \in SepSources
    /\ iter = StrIter_new
    /\ last = Idle
    /\ tasks = <<>>

NextSep ==
    \/ Next_item
    \/ Do_separated

SpecSep == InitSep /\ [][NextSep]_vars

\* The input of test_url_parser, "http://example.com/some/path ".
UrlInput ==
    <<"h", "t", "t", "p", ":", "/", "/",
      "e", "x", "a", "m", "p", "l", "e", ".", "c", "o", "m",
      "/", "s", "o", "m", "e", "/", "p", "a", "t", "h", " ">>

\* The url runs: the input of the test and every input cut short of it.
UrlSources == {SubSeq(UrlInput, 1, n) : n \in 0..Len(UrlInput)}

UrlNames == {"proto", "domain", "path", "url"}

InitUrl ==
    /\ source \in UrlSources
    /\ iter = StrIter_new
    /\ last = Idle
    /\ tasks = <<>>

\* run!(iter, f) for a rule of the url grammar.
Do_run == \E f \in UrlNames : Applied("run", <<f>>, Rule(f)[iter], <<>>)

NextUrl ==
    \/ Next_item
    \/ Do_run

SpecUrl == InitUrl /\ [][NextUrl]_vars

\* The text runs: a cursor over a text with letters, digits, line ends and
\* a character of two bytes, and the operations of the cursor and the
\* single-element matchers on it.
MaxTextLen == 3

\* The characters of the texts, each the sequence of its UTF-8 bytes: "a",
\* "1", the line end and U+00A0, whose bytes are 0xC2 0xA0.
TextChars == {<<"a">>, <<"1">>, <<"\n">>, <<"Â", " ">>}

RECURSIVE Flatten(_)
Flatten(ss) == IF ss = <<>> THEN <<>> ELSE Head(ss) \o Flatten(Tail(ss))

\* A &str of up to MaxTextLen characters, as its bytes.
TextSources == {Flatten(cs) : cs \in SeqsUpTo(TextChars, MaxTextLen)}

InitText ==
    /\ source \in TextSources
    /\ iter = StrIter_new
    /\ last = Idle
    /\ tasks = <<>>

\* An operation of the cursor: what it was, its arguments, the cursor it was
\* called on and what it returned.
Called(op, args, ret) ==
    last' = [op |-> op, rules |-> args, entry |-> iter, res |-> ret,
             calls |-> <<>>]

\* iter.next(), at the end of the input as well
It_next ==
    /\ iter' = next(iter).iter
    /\ Called("next", <<>>, next(iter).item)
    /\ UNCHANGED <<source, tasks>>

\* iter.peek_next()
It_peek_next ==
    /\ Called("peek_next", <<>>, peek_next(iter))
    /\ UNCHANGED <<source, iter, tasks>>

\* iter.span(SpanRange::Range(from..to)), the ranges it panics on included
It_span ==
    /\ \E to \in 0..(Len(source) + 1) : \E from \in 0..(Len(source) + 1) :
           Called("span", <<from, to>>, span(iter, from, to))
    /\ UNCHANGED <<source, iter, tasks>>

\* iter.clone()
It_clone ==
    /\ Called("clone", <<>>, clone(iter))
    /\ UNCHANGED <<source, iter, tasks>>

\* input!(iter)
It_input ==
    /\ Called("input", <<>>, input_m(iter))
    /\ UNCHANGED <<source, iter, tasks>>

MatcherNames == {"ascii_ws", "ascii_digit", "ascii_alpha", "ascii_alphanumeric"}

\* f(iter.clone()) for a single-element matcher f
Do_matcher ==
    /\ \E f \in MatcherNames : Called("matcher", <<f>>, run(iter, f))
    /\ UNCHANGED <<source, iter, tasks>>

NextText ==
    \/ It_next
    \/ It_peek_next
    \/ It_span
    \/ It_clone
    \/ It_input
    \/ Do_matcher

SpecText == InitText /\ [][NextText]_vars

\* seek leaves line and column as they are, so that next() after a seek
\* backward counts them up without end: the runs seek only while both are
\* at most MaxColumn.
MaxColumn == 3

\* iter.seek(to), to anywhere up to one past the end of the input
It_seek ==
    /\ iter.line <= MaxColumn
    /\ iter.column <= MaxColumn
    /\ \E to \in 0..(Len(source) + 1) :
           /\ iter' = seek(iter, to).iter
           /\ Called("seek", <<to>>, seek(iter, to).ret)
    /\ UNCHANGED <<source, tasks>>

NextIter ==
    \/ It_next
    \/ It_peek_next
    \/ It_span
    \/ It_clone
    \/ It_input
    \/ It_seek

\* The cursor runs: every operation of a StrIter, seek included.
SpecIter == InitText /\ [][NextIter]_vars

\* The rules of the scans over texts: the single-element matchers, and the
\* text tokens of "a" and of U+00A0, text_token!("\u{a0}").
ScanNames == MatcherNames \cup {"tok_a", "tok_nbsp"}

\* until!(iter, f) on a StrIter over a text
Do_until_text ==
    \E f \in ScanNames :
        LET r == until_run(iter, Rule(f))
        IN  Applied("until", <<f>>, r.res, r.calls)

\* consume_all!(iter, f) on a StrIter over a text
Do_consume_all_text ==
    \E f \in ScanNames :
        LET r == consume_all_run(iter, Rule(f))
        IN  Applied("consume_all", <<f>>, r.res, r.calls)

NextScan ==
    \/ Next_item
    \/ Do_until_text
    \/ Do_consume_all_text

\* The scan runs: until! and consume_all! from any offset of a text that
\* has a character of two bytes.
SpecScan == InitText /\ [][NextScan]_vars

\* The second input of the crate documentation, "http:///some/path".
BadInput ==
    <<"h", "t", "t", "p", ":", "/", "/",
      "/", "s", "o", "m", "e", "/", "p", "a", "t", "h">>

\* The runs of the documented url: the input of the documentation cut at
\* any length, and every short string of "h", ":" and "/".
MaxDocLen == 5

DocAlphabet == {"h", ":", "/"}

DocSources ==
    {SubSeq(BadInput, 1, n) : n \in 0..Len(BadInput)}
    \cup SeqsUpTo(DocAlphabet, MaxDocLen)

InitDoc ==
    /\ source \in DocSources
    /\ iter = StrIter_new
    /\ last = Idle
    /\ tasks = <<>>

\* lib.rs, crate documentation: url = either!(full_url, relative_url)
Do_url_doc ==
    LET e == either_run(iter, <<[c \in Cursors |-> full_url(c)],
                                [c \in Cursors |-> relative_url(c)]>>)
    IN  Applied("url_doc", <<"full_url", "relative_url">>, e.res, e.calls)

NextDoc ==
    \/ Next_item
    \/ Do_url_doc

SpecDoc == InitDoc /\ [][NextDoc]_vars

\* The interleaved runs: two text_token! attempts, each on its own clone of
\* the cursor, taking their steps in any order.
MaxConcLen == 2

ConcSources == SeqsUpTo(Alphabet, MaxConcLen)

ConcLits == SeqsUpTo({"a", ";"}, 2)

InitConc ==
    /\ source \in ConcSources
    /\ iter = StrIter_new
    /\ last = Idle
    /\ tasks = <<>>

\* text_token!(c, lit) before its first step: `let mut _i = $i.clone();
\* let mut count = 0;`, at the first expected element, with no Result yet.
token_start(c, lit) ==
    [lit |-> lit, entry |-> c, cur |-> clone(c), k |-> 1, count |-> 0,
     res |-> <<>>]

\* Two steps that move one cursor: the step of attempt p leaves its cursor
\* to the other attempt too.
token_step_mut(as, p) ==
    LET a == as[p]
        n == next(a.cur)
    IN  IF n.item = <<>>
        THEN [as EXCEPT ![p].k = Len(a.lit) + 1]
        ELSE [q \in DOMAIN as |->
                 IF q = p
                 THEN [a EXCEPT !.cur = n.iter, !.k = a.k + 1,
                                !.count = IF n.item[1] = a.lit[a.k]
                                          THEN a.count + 1 ELSE a.count]
                 ELSE [as[q] EXCEPT !.cur = n.iter]]

\* One turn of the loop `for expected in $e.bytes()` of attempt p: next() on
\* its own cursor, break on None, count the element when it matches.
token_step(as, p) ==
    LET a == as[p]
        n == next(a.cur)
    IN  IF n.item = <<>>
        THEN [as EXCEPT ![p].k = Len(a.lit) + 1]
        ELSE [as EXCEPT ![p].cur = n.iter, ![p].k = a.k + 1,
                        ![p].count = IF n.item[1] = a.lit[a.k]
                                     THEN a.count + 1 ELSE a.count]

\* The Result of attempt p after its loop.
token_finish(as, p) ==
    LET a == as[p]
    IN  [as EXCEPT ![p].res =
            <<IF a.count = Len(a.lit)
              THEN Complete(a.cur, a.lit)
              ELSE Fail(Error_new("Expected " \o Join(a.lit) \o " but didn't get it.",
                                  a.entry))>>]

\* Two attempts start, each with a clone of the cursor.
Conc_spawn ==
    /\ tasks = <<>>
    /\ \E l1, l2 \in ConcLits :
           tasks' = <<token_start(clone(iter), l1), token_start(clone(iter), l2)>>
    /\ UNCHANGED <<source, iter, last>>

Conc_step ==
    /\ tasks # <<>>
    /\ \E p \in DOMAIN tasks :
           /\ tasks[p].k <= Len(tasks[p].lit)
           /\ tasks' = token_step(tasks, p)
    /\ UNCHANGED <<source, iter, last>>

Conc_finish ==
    /\ tasks # <<>>
    /\ \E p \in DOMAIN tasks :
           /\ tasks[p].k > Len(tasks[p].lit)
           /\ tasks[p].res = <<>>
           /\ tasks' = token_finish(tasks, p)
    /\ UNCHANGED <<source, iter, last>>

NextConc ==
    \/ Next_item
    \/ Conc_spawn
    \/ Conc_step
    \/ Conc_finish

SpecConc == InitConc /\ [][NextConc]_vars

\* CursorAt is where next() gets to.
CursorAtOK == \A n \in 0..Len(source) : CursorAt(n) = Advance(StrIter_new, n)

TypeOK ==
    /\ source \in Sources \cup SepSources \cup UrlSources \cup TextSources \cup ConcSources
                  \cup DocSources
    /\ iter \in Cursors
    /\ last.res.kind \in {"None", "Complete", "Incomplete", "Fail", "Abort", "Diverge",
                          "Panic"}

(***************************************************************************)
(* The claims.                                                             *)
(***************************************************************************)
\* The Result the k-th sub-rule of the last combinator returns when it is run
\* alone on the entry cursor.
Alone(k) == Rule(last.rules[k])[last.entry]

\* C5: optional! never returns Fail: the sub-rule's Complete(i, v) becomes
\* Complete(i, Some(v)), its Fail becomes Complete(c, None) at the entry
\* cursor c, its Incomplete and Abort are returned unchanged.
C5_OptionalNeverFails ==
    last.op = "optional" =>
        LET r == Alone(1)
        IN  /\ last.res.kind # "Fail"
            /\ r.kind = "Complete" => last.res = Complete(r.iter, Some(r.out))
            /\ r.kind = "Fail" => last.res = Complete(last.entry, None)
            /\ r.kind \in {"Incomplete", "Abort"} => last.res = r

\* C5 witness: optional! over a sub-rule that fails after the cursor moved.
C5_Witness ==
    /\ last.op = "optional"
    /\ Alone(1).kind = "Fail"
    /\ last.entry.offset > 0
    /\ last.res = Complete(last.entry, None)

\* C7: must! never returns Fail: the sub-rule's Fail(e) becomes Abort(e) with
\* the same error, its Complete, Incomplete and Abort are returned unchanged.
C7_MustNeverFails ==
    last.op = "must" =>
        LET r == Alone(1)
        IN  /\ last.res.kind # "Fail"
            /\ r.kind = "Fail" => last.res = Abort(r.err)
            /\ r.kind \in {"Complete", "Incomplete", "Abort"} => last.res = r

\* C7 witness: must! over a sub-rule that fails.
C7_Witness ==
    /\ last.op = "must"
    /\ Alone(1).kind = "Fail"
    /\ last.res.kind = "Abort"

\* C8: trap!(c, must!(R)) returns R's outcome r itself when r is Complete,
\* Incomplete or Fail, and Fail(e) when r is Abort(e).
C8_TrapAfterMust ==
    last.op = "trap_must" =>
        LET r == Alone(1)
        IN  /\ r.kind \in {"Complete", "Incomplete", "Fail"} => last.res = r
            /\ r.kind = "Abort" => last.res = Fail(r.err)

\* C8 witness: trap!(must!(R)) over a sub-rule that fails.
C8_Witness ==
    /\ last.op = "trap_must"
    /\ Alone(1).kind = "Fail"
    /\ last.res.kind = "Fail"

\* The combinators of the model other than trap! and not!.
PropagatingOps ==
    {"peek", "must", "must_complete", "complete", "do_each", "either",
     "optional", "repeat", "separated", "until", "consume_all", "discard"}

\* Whenever a sub-rule the last combinator invoked returned Abort(e), the
\* combinator returned Abort(e).
AbortPropagated ==
    \A k \in DOMAIN last.calls :
        last.calls[k].ret.kind = "Abort" => last.res = Abort(last.calls[k].ret.err)

\* C1 as stated: every combinator other than trap!, not! included, returns
\* Abort(e) whenever a sub-rule it invoked returned Abort(e).
C1_Original ==
    last.op \in PropagatingOps \cup {"not"} => AbortPropagated

\* C1: peek!, must!, must_complete!, complete!, do_each!, either!, optional!,
\* repeat!, separated!, until!, consume_all! and discard! return Abort(e),
\* with the same error e, whenever a sub-rule they invoked returned Abort(e);
\* not! de-escalates like trap! and is not among them.
C1_AbortPropagation ==
    last.op \in PropagatingOps => AbortPropagated

\* C1 witness: a repetition whose sub-rule aborts after an attempt completed.
C1_Witness ==
    /\ last.op = "repeat"
    /\ Len(last.calls) >= 2
    /\ last.calls[Len(last.calls)].ret.kind = "Abort"
    /\ last.res.kind = "Abort"

\* C6 as stated: the cursor of a Complete and the cursor of an Incomplete
\* returned by peek! both have the entry cursor's offset.
C6_Original ==
    last.op = "peek" =>
        /\ last.res.kind = "Complete" =>
              /\ last.res.iter.offset = last.entry.offset
              /\ last.res.out = Alone(1).out
        /\ last.res.kind = "Incomplete" => last.res.ctx.offset = last.entry.offset

\* C6: peek! returns Complete(c, v) at the entry cursor c when the sub-rule
\* returns Complete(_, v), and returns the sub-rule's Incomplete, Fail and
\* Abort unchanged (the cursor of an Incomplete is the sub-rule's).
C6_PeekNeverAdvancesOnComplete ==
    last.op = "peek" =>
        LET r == Alone(1)
        IN  /\ r.kind = "Complete" => last.res = Complete(last.entry, r.out)
            /\ r.kind \in {"Incomplete", "Fail", "Abort"} => last.res = r

\* C6 witness: peek! over a sub-rule that completes past the entry cursor.
C6_Witness ==
    /\ last.op = "peek"
    /\ Alone(1).kind = "Complete"
    /\ Alone(1).iter.offset > last.entry.offset
    /\ last.res.iter = last.entry

\* C2: in either!(c, A1, ..., An), when A1..A(k-1) return Fail and Ak returns
\* Complete, the result is what Ak returns run alone on the entry cursor c;
\* when every alternative returns Fail, the result is Fail with the last
\* alternative's error.
C2_EitherNoLeakage ==
    last.op = "either" =>
        LET n == Len(last.rules)
        IN  /\ \A k \in 1..n :
                  (/\ \A j \in 1..(k - 1) : Alone(j).kind = "Fail"
                   /\ Alone(k).kind = "Complete")
                  => last.res = Alone(k)
            /\ (\A k \in 1..n : Alone(k).kind = "Fail")
                  => last.res = Fail(Alone(n).err)

\* C2 witness: two alternatives fail, the first after consuming an element
\* on its own cursor, and the third completes.
C2_Witness ==
    /\ last.op = "either"
    /\ Len(last.rules) = 3
    /\ Alone(1).kind = "Fail"
    /\ Alone(1).err.context.offset > last.entry.offset
    /\ Alone(2).kind = "Fail"
    /\ Alone(3).kind = "Complete"
    /\ last.res = Alone(3)

\* C3: either! invokes its alternatives in order, each on the entry cursor,
\* the next one only after a Fail: the invocations made are A1..Am, all but
\* the last returned Fail, the last one's outcome is the result, and Am
\* returned Fail only if it is the last alternative.
C3_EitherShortCircuit ==
    last.op = "either" =>
        LET m == Len(last.calls)
        IN  /\ m \in 1..Len(last.rules)
            /\ \A k \in 1..m :
                  /\ last.calls[k].rule = k
                  /\ last.calls[k].at = last.entry
                  /\ last.calls[k].ret = Alone(k)
            /\ \A k \in 1..(m - 1) : last.calls[k].ret.kind = "Fail"
            /\ last.res = last.calls[m].ret
            /\ m < Len(last.rules) => last.calls[m].ret.kind # "Fail"

\* C3 witness: the first alternative aborts and a later alternative, which
\* would have completed, is not invoked.
C3_Witness ==
    /\ last.op = "either"
    /\ Len(last.calls) = 1
    /\ last.calls[1].ret.kind = "Abort"
    /\ \E k \in 2..Len(last.rules) : Alone(k).kind = "Complete"
    /\ last.res.kind = "Abort"

\* The rule named f never returns a cursor behind the one it was given.
NonRegressing(f) ==
    \A c \in Cursors :
        Rule(f)[c].kind = "Complete" => Rule(f)[c].iter.offset >= c.offset

NoAbortAttempt == \A k \in DOMAIN last.calls : last.calls[k].ret.kind # "Abort"

\* Every attempt that completed moved the cursor forward.
EveryCompleteAdvances ==
    \A k \in DOMAIN last.calls :
        last.calls[k].ret.kind = "Complete"
        => last.calls[k].ret.iter.offset > last.calls[k].at.offset

\* repeat! returned Complete with the values of the attempts that completed,
\* in order, at the cursor of the attempt that returned Fail or Incomplete.
RepeatCompleted ==
    LET m == Len(last.calls)
    IN  /\ last.res.kind = "Complete"
        /\ m >= 1
        /\ \A k \in 1..(m - 1) : last.calls[k].ret.kind = "Complete"
        /\ last.calls[m].ret.kind \in {"Fail", "Incomplete"}
        /\ last.res.out = [k \in 1..(m - 1) |-> last.calls[k].ret.out]
        /\ last.res.iter = last.calls[m].at
        /\ last.res.iter.offset >= last.entry.offset

\* C4 as stated: for a sub-rule that never returns a cursor behind the one it
\* was given, repeat! returns Complete unless some attempt returns Abort.
C4_Original ==
    (last.op = "repeat" /\ NonRegressing(last.rules[1]) /\ NoAbortAttempt)
    => RepeatCompleted

\* C4: for a sub-rule that never returns a cursor behind the one it was
\* given, repeat! returns Complete unless some attempt returns Abort or
\* returns Complete without advancing the cursor; in the latter case it does
\* not return.  The value is the list of the values of the consecutive
\* Complete attempts and the cursor is the one before the first attempt that
\* returned Fail or Incomplete, at or after the entry cursor.
C4_Repetition ==
    (last.op = "repeat" /\ NonRegressing(last.rules[1]) /\ NoAbortAttempt)
    => IF EveryCompleteAdvances THEN RepeatCompleted ELSE last.res = Diverge

\* C4 witness: two attempts complete, the third fails before the end of the
\* input.
C4_Witness ==
    /\ last.op = "repeat"
    /\ last.res.kind = "Complete"
    /\ Len(last.res.out) = 2
    /\ last.calls[3].ret.kind = "Fail"
    /\ last.res.iter.offset < Len(source)

\* The Result of the first sub-rule of the last combinator at offset p, on
\* the cursor that next() reaches there from the entry cursor.
SubAt(p) == Rule(last.rules[1])[Advance(last.entry, p - last.entry.offset)]

\* C10: until!(c, T) with c at offset s: when p is the first offset from s on
\* where T completes and T fails at every offset before it, the result is
\* Complete with the span source[s..p] and a cursor at offset p; when T fails
\* at every offset from s to the end of the input included, it is Incomplete.
\* It holds over the texts of one-byte characters, and not over a StrIter on
\* a text in which s or p is inside a character, where span panics.
C10_ScanUntil ==
    last.op = "until" =>
        LET s == last.entry.offset
            n == Len(source)
        IN  /\ \A p \in s..n :
                  (/\ SubAt(p).kind = "Complete"
                   /\ \A q \in s..(p - 1) : SubAt(q).kind = "Fail")
                  => /\ last.res.kind = "Complete"
                     /\ last.res.out = SubSeq(source, s + 1, p)
                     /\ last.res.iter.offset = p
            /\ (\A q \in s..n : SubAt(q).kind = "Fail")
                  => last.res.kind = "Incomplete"

\* C10 witness: a scan from a cursor past the start that stops before a
\* terminator which consumes input.
C10_Witness ==
    /\ last.op = "until"
    /\ last.entry.offset > 0
    /\ last.res.kind = "Complete"
    /\ last.res.iter.offset > last.entry.offset
    /\ Rule(last.rules[1])[last.res.iter].iter.offset > last.res.iter.offset

\* The separator and the item rule of the last separated!.
SepRule == Rule(last.rules[1])

ItemRule == Rule(last.rules[2])

NeverAborts(f) == \A c \in Cursors : Rule(f)[c].kind # "Abort"

\* The Result of the item rule after the separator rule, from the cursor e:
\* the separator's Result when it does not complete.
PairAt(e) ==
    LET s == SepRule[e]
    IN  IF s.kind = "Complete" THEN ItemRule[s.iter] ELSE s

\* Reading item (separator item)^k from the cursor c with the two rules: the
\* cursors at the end of each of the k + 1 items and their values, or <<>>
\* when the rules do not complete that many times in a row.
RECURSIVE ListOf(_, _)
ListOf(c, k) ==
    IF k = 0
    THEN IF ItemRule[c].kind = "Complete"
         THEN <<ItemRule[c]>> ELSE <<>>
    ELSE LET p == ListOf(c, k - 1)
         IN  IF p = <<>> THEN <<>>
             ELSE LET r == PairAt(p[Len(p)].iter)
                  IN  IF r.kind = "Complete" THEN Append(p, r) ELSE <<>>

ListEnd(c, k) == ListOf(c, k)[k + 1].iter

ListValues(c, k) == [j \in 1..(k + 1) |-> ListOf(c, k)[j].out]

\* The input from c on has the form item (separator item)^k, followed by a
\* trailing separator and nothing else when trailing, by nothing otherwise.
Form(c, k, trailing) ==
    /\ ListOf(c, k) # <<>>
    /\ IF trailing
       THEN /\ SepRule[ListEnd(c, k)].kind = "Complete"
            /\ SepRule[ListEnd(c, k)].iter.offset = Len(source)
       ELSE ListEnd(c, k).offset = Len(source)

\* separated! returned Complete with the k + 1 items read from c and the
\* cursor at the end of the last one.
SeparatedCompleted(c, k) ==
    /\ last.res.kind = "Complete"
    /\ Len(last.res.out) = k + 1
    /\ last.res.out = ListValues(c, k)
    /\ last.res.iter = ListEnd(c, k)

SeparatedCase ==
    /\ last.op = "separated"
    /\ NeverAborts(last.rules[1])
    /\ NeverAborts(last.rules[2])

HeadFails ==
    ItemRule[last.entry].kind = "Fail"
    => last.res = Fail(ItemRule[last.entry].err)

\* C9 as stated: rules that never abort; Fail when the item fails at the
\* entry cursor; over item (separator item)^k with or without a trailing
\* separator, Complete with the k + 1 items and the cursor at the end of the
\* last item.
C9_Original ==
    SeparatedCase =>
        /\ HeadFails
        /\ \A k \in 0..Len(source) : \A trailing \in BOOLEAN :
               Form(last.entry, k, trailing)
               => SeparatedCompleted(last.entry, k)

\* Each of the first k separator-item pairs read from c moved the cursor.
PairsAdvance(c, k) ==
    \A j \in 1..k : ListOf(c, k)[j + 1].iter.offset > ListOf(c, k)[j].iter.offset

\* C9: for rules that never abort, separated! returns the item's Fail when
\* the item fails at the entry cursor and its Incomplete when it is
\* incomplete there.  When the item completes and separator-then-item
\* completes exactly k more times in a row, each time moving the cursor,
\* before the separator or the item after it returns Fail or Incomplete, the
\* result is Complete with the k + 1 values in order and the cursor at the end
\* of the last item, before a trailing separator.  When separator-then-item
\* completes without moving the cursor, separated! does not return.
C9_SeparatedList ==
    SeparatedCase =>
        LET c == last.entry
        IN  /\ HeadFails
            /\ ItemRule[c].kind = "Incomplete" => last.res = ItemRule[c]
            /\ \A k \in 0..Len(source) :
                   (ListOf(c, k) # <<>> /\ PairsAdvance(c, k))
                   => LET r == PairAt(ListEnd(c, k))
                      IN  /\ r.kind \in {"Fail", "Incomplete"}
                             => SeparatedCompleted(c, k)
                          /\ (r.kind = "Complete" /\ r.iter = ListEnd(c, k))
                             => last.res = Diverge

\* C9 witness: two or more "a" items separated by ";" and a trailing ";",
\* which is left unconsumed.
C9_Witness ==
    /\ SeparatedCase
    /\ last.rules = <<"tok_semi", "tok_a">>
    /\ last.res.kind = "Complete"
    /\ Len(last.res.out) >= 2
    /\ Form(last.entry, Len(last.res.out) - 1, TRUE)
    /\ last.res.iter.offset < Len(source)
    /\ SepRule[last.res.iter].iter.offset = Len(source)

\* The elements of lit are there from the entry cursor on, one by one.
LitMatches(c, lit) ==
    /\ c.offset + Len(lit) <= Len(source)
    /\ \A k \in 1..Len(lit) : source[c.offset + k] = lit[k]

\* C11: text_token!(c, lit) returns Complete(c', lit) with c' Len(lit)
\* elements after c exactly when the Len(lit) elements from c on exist and
\* equal lit one by one; otherwise it returns Fail with the error positioned
\* at c.  It returns neither Incomplete nor Abort.
C11_ExactToken ==
    last.op = "text_token" =>
        LET lit == last.rules[1]
            c == last.entry
        IN  /\ last.res.kind \in {"Complete", "Fail"}
            /\ last.res.kind = "Complete" <=> LitMatches(c, lit)
            /\ last.res.kind = "Complete"
               => /\ last.res.out = lit
                  /\ last.res.iter = Advance(c, Len(lit))
                  /\ last.res.iter.offset = c.offset + Len(lit)
            /\ last.res.kind = "Fail"
               => /\ last.res.err.context = c
                  /\ last.res.err.cause = <<>>

\* C11 witness: a two-element literal whose first element matches and whose
\* second does not, tried past the start of the input.
C11_Witness ==
    /\ last.op = "text_token"
    /\ Len(last.rules[1]) = 2
    /\ last.entry.offset > 0
    /\ last.entry.offset + 2 <= Len(source)
    /\ source[last.entry.offset + 1] = last.rules[1][1]
    /\ source[last.entry.offset + 2] # last.rules[1][2]
    /\ last.res.kind = "Fail"

UrlCase ==
    /\ last.op = "run"
    /\ last.rules = <<"url">>
    /\ source = UrlInput
    /\ last.entry = StrIter_new

\* C12: url over "http://example.com/some/path " from the start returns
\* Complete with protocol Some("http"), domain Some("example.com"), path
\* "/some/path" and the cursor at offset 28, before the trailing space.
C12_UrlGrammar ==
    UrlCase =>
        /\ last.res.kind = "Complete"
        /\ last.res.out[1] = Some(<<"h", "t", "t", "p">>)
        /\ last.res.out[2] =
               Some(<<"e", "x", "a", "m", "p", "l", "e", ".", "c", "o", "m">>)
        /\ last.res.out[3] = <<"/", "s", "o", "m", "e", "/", "p", "a", "t", "h">>
        /\ Len(last.res.out) = 3
        /\ last.res.iter.offset = 28
        /\ next(last.res.iter).item = <<" ">>

\* C12 witness: url has run over the whole input of the test from its start.
C12_Witness ==
    /\ UrlCase
    /\ last.res.kind = "Complete"
    /\ last.res.iter.offset < Len(source)

\* C13: not!(c, R) returns Complete(c, ()) when R returns Fail or Abort at c,
\* Fail when R returns Complete, R's Incomplete when R returns Incomplete,
\* and never Abort.
C13_NegativeLookahead ==
    last.op = "not" =>
        LET r == Alone(1)
        IN  /\ r.kind \in {"Fail", "Abort"} => last.res = Complete(last.entry, Unit)
            /\ r.kind = "Complete" => last.res.kind = "Fail"
            /\ r.kind = "Incomplete" => last.res = r
            /\ last.res.kind # "Abort"
            /\ last.res.kind = "Complete"
               => last.res.iter.offset = last.entry.offset

\* C13 witness: the sub-rule aborts past the start of the input and not!
\* completes at the entry cursor.
C13_Witness ==
    /\ last.op = "not"
    /\ Alone(1).kind = "Abort"
    /\ last.entry.offset > 0
    /\ last.res = Complete(last.entry, Unit)

\* C14: when the sub-rule completes, the Fail of not (and of not!) carries a
\* new error positioned at the entry cursor, not at the cursor the sub-rule
\* advanced to.
C14_InvertErrorPosition ==
    (last.op = "not" /\ Alone(1).kind = "Complete")
    => /\ last.res.kind = "Fail"
       /\ last.res.err.cause = <<>>
       /\ last.res.err.context = last.entry

\* C15: must_complete never returns Fail or Incomplete: Fail(e) becomes
\* Abort(e), Incomplete(ctx) becomes Abort of a new error without cause, with
\* the message handed in and positioned at ctx; Complete and Abort are
\* returned unchanged.
C15_ForceComplete ==
    last.op = "must_complete" =>
        LET r == Alone(1)
        IN  /\ last.res.kind \notin {"Fail", "Incomplete"}
            /\ r.kind = "Fail" => last.res = Abort(r.err)
            /\ r.kind = "Incomplete"
               => /\ last.res.kind = "Abort"
                  /\ last.res.err.msg = Msg
                  /\ last.res.err.cause = <<>>
                  /\ last.res.err.context = r.ctx
            /\ r.kind \in {"Complete", "Abort"} => last.res = r

\* C15 witness: the sub-rule ran out of input past the entry cursor.
C15_Witness ==
    /\ last.op = "must_complete"
    /\ Alone(1).kind = "Incomplete"
    /\ Alone(1).ctx.offset > last.entry.offset
    /\ last.res.kind = "Abort"

\* C16: complete never returns Incomplete: Incomplete(ctx) becomes Fail of a
\* new error with the message handed in, positioned at ctx; Complete, Fail
\* and Abort are returned unchanged.
C16_SettleIncomplete ==
    last.op = "complete" =>
        LET r == Alone(1)
        IN  /\ last.res.kind # "Incomplete"
            /\ r.kind = "Incomplete"
               => /\ last.res.kind = "Fail"
                  /\ last.res.err.msg = Msg
                  /\ last.res.err.context = r.ctx
            /\ r.kind \in {"Complete", "Fail", "Abort"} => last.res = r

\* C16 witness: an Incomplete past the start of the input was settled to Fail.
C16_Witness ==
    /\ last.op = "complete"
    /\ Alone(1).kind = "Incomplete"
    /\ last.entry.offset > 0
    /\ last.res.kind = "Fail"

\* The number of errors on the cause chain of e, e included.
RECURSIVE ChainLen(_)
ChainLen(e) == IF e.cause = <<>> THEN 1 ELSE 1 + ChainLen(e.cause[1])

\* C17: wrap_err! keeps the kind of the outcome; for Fail(e) and Abort(e) the
\* new error has the message handed in, e itself (its cause chain included)
\* as its cause, so that the chain is longer by exactly one, and the entry
\* cursor as its position; Complete and Incomplete are returned unchanged.
C17_Wrap ==
    last.op \in {"wrap_err", "wrap_err2"} =>
        LET r == last.calls[1].ret
        IN  /\ r = Wrapped(last.rules[1], last.op = "wrap_err2")[last.entry]
            /\ last.res.kind = r.kind
            /\ r.kind \in {"Fail", "Abort"}
               => /\ last.res.err.msg = WrapMsg
                  /\ last.res.err.cause = <<r.err>>
                  /\ last.res.err.context = last.entry
                  /\ ChainLen(last.res.err) = ChainLen(r.err) + 1
            /\ r.kind \in {"Complete", "Incomplete"} => last.res = r

\* C17 witness: a Fail that already has a cause is wrapped, at an entry
\* cursor that differs from the position of the first error of the chain.
C17_Witness ==
    /\ last.op = "wrap_err2"
    /\ last.res.kind = "Fail"
    /\ ChainLen(last.res.err) = 3
    /\ last.res.err.cause[1].cause[1].context # last.entry

\* C18: do_each! runs its steps in order, the first from the entry cursor and
\* each next one from the cursor the step before it completed at; the first
\* step that does not complete ends the sequence and its outcome is the
\* result, unmodified; when every step completes the result is Complete with
\* the last step's cursor and the tuple of the bound values.
C18_Sequencing ==
    last.op = "do_each" =>
        LET m == Len(last.calls)
            n == Len(last.rules)
        IN  /\ m \in 1..n
            /\ last.calls[1].at = last.entry
            /\ \A k \in 1..m :
                   /\ last.calls[k].rule = k
                   /\ last.calls[k].ret = Rule(last.rules[k])[last.calls[k].at]
            /\ \A k \in 1..(m - 1) :
                   /\ last.calls[k].ret.kind = "Complete"
                   /\ last.calls[k + 1].at = last.calls[k].ret.iter
            /\ IF last.calls[m].ret.kind # "Complete"
               THEN last.res = last.calls[m].ret
               ELSE /\ m = n
                    /\ last.res =
                           Complete(last.calls[n].ret.iter,
                                    [k \in 1..n |-> last.calls[k].ret.out])

\* C18 witness: both steps complete, each moving the cursor, from an entry
\* cursor the second step would not complete at.
C18_Witness ==
    /\ last.op = "do_each"
    /\ last.res.kind = "Complete"
    /\ last.calls[2].at.offset > last.entry.offset
    /\ last.res.iter.offset > last.calls[2].at.offset
    /\ Rule(last.rules[2])[last.entry].kind # "Complete"

\* Some attempt of the sub-rule of the last combinator returned Abort.
SomeAttemptAborts ==
    \E k \in DOMAIN last.calls : last.calls[k].ret.kind = "Abort"

\* C19 as stated: when an attempt inside repeat! returns Abort, repeat!
\* returns Abort, without the values of the earlier attempts, and the
\* position the Abort reports is the entry cursor of the repetition.
C19_Original ==
    (last.op = "repeat" /\ SomeAttemptAborts)
    => /\ last.res.kind = "Abort"
       /\ last.res.err.context = last.entry

\* C19: when an attempt inside repeat! returns Abort(e), it is the last
\* attempt and repeat! returns Abort(e), the error unchanged and without the
\* values of the earlier attempts: the position reported is the one the
\* sub-rule gave e.
C19_RepeatAbort ==
    (last.op = "repeat" /\ SomeAttemptAborts)
    => LET m == Len(last.calls)
       IN  /\ \A k \in 1..(m - 1) : last.calls[k].ret.kind = "Complete"
           /\ last.calls[m].ret.kind = "Abort"
           /\ last.calls[m].ret = Rule(last.rules[1])[last.calls[m].at]
           /\ last.res = Abort(last.calls[m].ret.err)
           /\ DOMAIN last.res = {"kind", "err"}

\* C19 witness: an attempt completes, the next one aborts with an error
\* positioned past the entry cursor.
C19_Witness ==
    /\ last.op = "repeat"
    /\ Len(last.calls) >= 2
    /\ last.res.kind = "Abort"
    /\ last.res.err.context.offset > last.entry.offset

\* C20: consume_all!(c, R) with c at offset s: when p is the first offset from
\* s on where R fails and R completes at every offset before it, the result
\* is Complete with the span source[s..p] and a cursor at offset p; when the
\* first offset where R does not complete is one where it aborts, the result
\* is that Abort; when R completes at every offset from s to the end of the
\* input included, the result is Incomplete.  It holds over the texts of
\* one-byte characters, and not over a StrIter on a text in which s or p is
\* inside a character, where span panics.
C20_ScanWhile ==
    last.op = "consume_all" =>
        LET s == last.entry.offset
            n == Len(source)
        IN  /\ \A p \in s..n :
                  (\A q \in s..(p - 1) : SubAt(q).kind = "Complete")
                  => /\ SubAt(p).kind = "Fail"
                        => /\ last.res.kind = "Complete"
                           /\ last.res.out = SubSeq(source, s + 1, p)
                           /\ last.res.iter = CursorAt(p)
                     /\ SubAt(p).kind = "Abort" => last.res = SubAt(p)
            /\ (\A q \in s..n : SubAt(q).kind = "Complete")
                  => last.res.kind = "Incomplete"

\* C20 witness: a scan from past the start of the input that consumed
\* elements and stopped before the end.
C20_Witness ==
    /\ last.op = "consume_all"
    /\ last.entry.offset > 0
    /\ last.res.kind = "Complete"
    /\ last.res.iter.offset > last.entry.offset
    /\ last.res.iter.offset < Len(source)

\* C21: when a single-element matcher returns Fail, the position its error
\* carries is the entry cursor's: the offset is the one before the attempt.
C21_MatcherErrorPosition ==
    (last.op = "matcher" /\ last.res.kind = "Fail")
    => last.res.err.context.offset = last.entry.offset

\* C22 as stated: over any sequence of cursor operations, seek included, the
\* offset never decreases and never exceeds the length of the source; next()
\* adds exactly 1 when it returns an element and nothing when it returns none.
C22_Original ==
    [][/\ iter'.offset >= iter.offset
       /\ iter'.offset <= Len(source)
       /\ last'.op = "next"
          => iter'.offset = iter.offset + Len(last'.res)]_vars

\* C22: the offset never exceeds the length of the source; next() adds
\* exactly 1 when it returns an element and nothing when it returns none;
\* peek_next, span, clone and input! leave it as it is; seek(to) sets it to
\* the smaller of to and the length of the source, which can be less than it
\* was.
C22_OffsetSteps ==
    [][/\ iter'.offset <= Len(source)
       /\ last'.op = "next"
          => /\ iter'.offset = iter.offset + Len(last'.res)
             /\ last'.res # <<>> <=> iter.offset < Len(source)
       /\ last'.op \in {"peek_next", "span", "clone", "input"}
          => iter'.offset = iter.offset
       /\ last'.op = "seek"
          => iter'.offset = (IF last'.rules[1] < Len(source)
                             THEN last'.rules[1] ELSE Len(source))]_vars

\* C22 witness: a seek from the end of the input, which next() had reached,
\* back to an offset before it.
C22_Witness ==
    /\ last.op = "seek"
    /\ last.entry.offset = Len(source)
    /\ last.entry = CursorAt(Len(source))
    /\ iter.offset > 0
    /\ iter.offset < last.entry.offset

\* C28: seek(to) sets the offset to the smaller of to and the length of the
\* source and returns it; the source, the line and the column are left as
\* they were.
C28_SeekFrame ==
    [][last'.op = "seek"
       => /\ iter'.offset = (IF last'.rules[1] < Len(source)
                             THEN last'.rules[1] ELSE Len(source))
          /\ last'.res = iter'.offset
          /\ iter'.line = iter.line
          /\ iter'.column = iter.column
          /\ source' = source]_vars

\* C28 witness: after a seek the line and column are not those of the offset.
C28_Witness ==
    /\ last.op = "seek"
    /\ last.rules[1] > Len(source)
    /\ iter.offset = Len(source)
    /\ iter # CursorAt(iter.offset)
    /\ iter.line > 1

\* The line and column of C23 in a state: a StrIter starts at line 1,
\* column 1; after any sequence of next()
\* its line is 1 plus the number of line ends consumed and its column 1 plus
\* the number of bytes consumed since the last of them; a clone and the
\* cursor input! returns report the same line and column.
C23_LineColumn ==
    LET consumed == 1..iter.offset
        nls == {k \in consumed : source[k] = "\n"}
        since == {k \in consumed : \A j \in nls : j < k}
    IN  /\ iter.line = 1 + Cardinality(nls)
        /\ iter.column = 1 + Cardinality(since)
        /\ iter.offset = 0 => (iter.line = 1 /\ iter.column = 1)
        /\ last.op = "clone"
           => (last.res.line = iter.line /\ last.res.column = iter.column)
        /\ last.op = "input"
           => /\ last.res.out.line = iter.line
              /\ last.res.out.column = iter.column
              /\ last.res.iter = iter

\* The line and column of C23 at a step: consuming a line end adds one to the line and sets the
\* column to 1, consuming another byte adds one to the column only, and
\* next() at the end of the input changes neither.
C23_LineColumnSteps ==
    [][last'.op = "next"
       => IF last'.res = <<"\n">>
          THEN iter'.line = iter.line + 1 /\ iter'.column = 1
          ELSE IF last'.res = <<>>
          THEN iter'.line = iter.line /\ iter'.column = iter.column
          ELSE iter'.line = iter.line /\ iter'.column = iter.column + 1]_vars

\* C23: line and column tracking, in every state and at every step.
C23_Tracking == []C23_LineColumn /\ C23_LineColumnSteps

\* C23 witness: a clone taken on the second line, past its first column.
C23_Witness ==
    /\ last.op = "clone"
    /\ iter.line = 2
    /\ iter.column = 2
    /\ iter.offset = 3

\* The entry cursor of the last combinator is where proto matches and the
\* element right after the "://" is "/".
SlashAfterProto ==
    /\ proto(last.entry).kind = "Complete"
    /\ next(proto(last.entry).iter).item = <<"/">>

\* C24: the documented url over "http:///some/path" returns Abort and
\* relative_url is not tried; so it is for every input in which proto matches
\* and the element right after "://" is "/".
C24_AbortableUrl ==
    last.op = "url_doc" =>
        /\ SlashAfterProto
           => /\ last.res.kind = "Abort"
              /\ Len(last.calls) = 1
              /\ last.calls[1].rule = 1
        /\ (source = BadInput /\ last.entry = StrIter_new)
           => /\ last.res.kind = "Abort"
              /\ Len(last.calls) = 1

\* C24 witness: the documented url has run over the input of the
\* documentation, where relative_url alone would not have aborted.
C24_Witness ==
    /\ last.op = "url_doc"
    /\ source = BadInput
    /\ last.entry = StrIter_new
    /\ SlashAfterProto
    /\ last.res.kind = "Abort"
    /\ relative_url(last.entry).kind # "Abort"

\* Every attempt that has returned returned what text_token! returns when it
\* runs alone from the attempt's entry cursor.
AsAlone ==
    \A p \in DOMAIN tasks :
        tasks[p].res # <<>>
        => tasks[p].res[1] = text_token(tasks[p].entry, tasks[p].lit)

\* A step changes the cursor and the progress of one attempt at most, and
\* neither the source nor the cursor the attempts were cloned from, unless it
\* is a step of that cursor.
OneAtATime ==
    (tasks # <<>> /\ tasks' # tasks)
    => /\ \E p \in DOMAIN tasks :
              \A q \in DOMAIN tasks \ {p} : tasks'[q] = tasks[q]
       /\ source' = source
       /\ iter' = iter

\* C25: two attempts on cursors of their own, cloned over the same source,
\* with their steps interleaved in any order, each return the outcome they
\* return when run alone, and no step of one changes the cursor of the other
\* or the source.
C25_Independence == []AsAlone /\ [][OneAtATime]_vars

\* C25 witness: both attempts have returned, one Complete and one Fail, from
\* a cursor past the start of the input, after the cursor they were cloned
\* from has moved on.
C25_Witness ==
    /\ tasks # <<>>
    /\ tasks[1].res # <<>>
    /\ tasks[2].res # <<>>
    /\ tasks[1].res[1].kind = "Complete"
    /\ tasks[2].res[1].kind = "Fail"
    /\ tasks[1].entry.offset > 0
    /\ tasks[1].cur.offset > tasks[1].entry.offset
    /\ tasks[2].cur.offset > tasks[2].entry.offset

\* The invocations of the sub-rule were made at the successive offsets from
\* the entry cursor on, one element apart.
OneElementApart ==
    \A k \in DOMAIN last.calls :
        last.calls[k].at = CursorAt(last.entry.offset + k - 1)

\* C26: until!(c, T) with c at offset s returns one of the four Results
\* after at most (len - s + 1) invocations of T, made one element apart,
\* whether T consumes input or not.
C26_UntilTerminates ==
    last.op = "until" =>
        /\ last.res.kind \in {"Complete", "Incomplete", "Fail", "Abort"}
        /\ Len(last.calls) <= Len(source) - last.entry.offset + 1
        /\ OneElementApart

\* C26 witness: a scan from past the start of the input, for a terminator
\* made of a text token, that invoked it (len - s + 1) times, the last time
\* at the end of the input.
C26_Witness ==
    /\ last.op = "until"
    /\ last.rules = <<"tok_a">>
    /\ last.entry.offset = 1
    /\ Len(source) = 3
    /\ Len(last.calls) = 3
    /\ last.calls[3].at.offset = Len(source)
    /\ last.res.kind = "Incomplete"

\* C27: repeat!(c, R) returns after at most (len - offset(c) + 1) attempts
\* when every attempt that returned Complete advanced the cursor, and does
\* not return when some attempt returned Complete without advancing it.
C27_RepeatTermination ==
    last.op = "repeat" =>
        IF EveryCompleteAdvances
        THEN /\ last.res.kind \in {"Complete", "Abort"}
             /\ Len(last.calls) <= Len(source) - last.entry.offset + 1
        ELSE last.res = Diverge

\* C27 witness: an attempt completes and advances, the next one completes
\* at the same cursor, and repeat! does not return.
C27_Witness ==
    /\ last.op = "repeat"
    /\ Len(last.calls) = 2
    /\ last.calls[1].ret.kind = "Complete"
    /\ last.calls[1].ret.iter.offset > last.calls[1].at.offset
    /\ last.calls[2].ret.kind = "Complete"
    /\ last.calls[2].ret.iter = last.calls[2].at
    /\ last.res = Diverge

\* C29: consume_all!(c, R) invokes R at the successive offsets from c on, one
\* element apart, whatever cursor R returned; when it returns Complete, R
\* completed in every invocation but the last, failed in the last, at offset
\* p, and the result is the span source[s..p] with a cursor at offset p.
C29_StepSize ==
    last.op = "consume_all" =>
        /\ OneElementApart
        /\ last.res.kind = "Complete" =>
              LET m == Len(last.calls)
                  s == last.entry.offset
                  p == s + m - 1
              IN  /\ m >= 1
                  /\ \A k \in 1..(m - 1) : last.calls[k].ret.kind = "Complete"
                  /\ last.calls[m].ret.kind = "Fail"
                  /\ last.res.out = SubSeq(source, s + 1, p)
                  /\ last.res.iter = CursorAt(p)

\* C29 witness: the rule consumed two elements at the entry cursor and failed
\* one element after it, inside its own match; the span is one element long.
C29_Witness ==
    /\ last.op = "consume_all"
    /\ last.rules = <<"tok_aa">>
    /\ Len(last.calls) = 2
    /\ last.calls[1].ret.kind = "Complete"
    /\ last.calls[1].ret.iter.offset = last.entry.offset + 2
    /\ last.calls[2].ret.kind = "Fail"
    /\ last.res.kind = "Complete"
    /\ last.res.out = <<"a">>
    /\ last.res.iter.offset = last.entry.offset + 1

\* The values of the item invocations among the first m invocations.
RECURSIVE ItemsOf(_)
ItemsOf(m) ==
    IF m = 0 THEN <<>>
    ELSE IF last.calls[m].rule = 2 /\ last.calls[m].ret.kind = "Complete"
         THEN Append(ItemsOf(m - 1), last.calls[m].ret.out)
         ELSE ItemsOf(m - 1)

\* C30: when the first item of separated! completed, separated! returns
\* Complete or Abort, if it returns.  A Fail or an Incomplete of a separator
\* or of a later item ends the list: the result is Complete with the items
\* parsed, at the cursor before that separator.  An Abort of a separator or
\* of a later item is the result, without the items parsed.
C30_AfterFirstItem ==
    (last.op = "separated" /\ last.calls[1].ret.kind = "Complete")
    => LET m == Len(last.calls)
           e == last.calls[m]
       IN  /\ last.res.kind \notin {"Fail", "Incomplete"}
           /\ last.res.kind \in {"Complete", "Abort"} => m >= 2
           /\ (m >= 2 /\ e.ret.kind \in {"Fail", "Incomplete"})
              => /\ last.res.kind = "Complete"
                 /\ last.res.out = ItemsOf(m)
                 /\ last.res.iter =
                        IF e.rule = 1 THEN e.at ELSE last.calls[m - 1].at
           /\ (m >= 2 /\ e.ret.kind = "Abort") => last.res = Abort(e.ret.err)
           /\ last.res.kind = "Complete"
              => (m >= 2 /\ e.ret.kind \in {"Fail", "Incomplete"})
           /\ last.res.kind = "Abort" => (m >= 2 /\ e.ret.kind = "Abort")

\* C30 witness: two items and their separators were parsed, and the item
\* after the second separator aborted.
C30_Witness ==
    /\ last.op = "separated"
    /\ Len(last.calls) = 5
    /\ last.calls[1].ret.kind = "Complete"
    /\ last.calls[3].ret.kind = "Complete"
    /\ last.calls[5].rule = 2
    /\ last.calls[5].ret.kind = "Abort"
    /\ last.res.kind = "Abort"

====
